---- MODULE Spec2Model ----
(***************************************************************************)
(* A model of the forwarding/policy engine of openai-proxy-python:         *)
(*   app/security.py      RateLimiter, SecurityFilter                      *)
(*   app/rate_limiter.py  TokenRateLimiter                                 *)
(*   app/proxy.py         _process_stream, _handle_rate_limit_retry,       *)
(*                        forward_request                                  *)
(*                                                                         *)
(* Time (time.time()) is counted in tenths of a second, the resolution of  *)
(* the 0.1 s buffer of TokenRateLimiter._calculate_wait_time; 60 s is 600. *)
(* Every component has its own variables, its own next-state relation and  *)
(* its own specification; a specification leaves the other components'     *)
(* variables unchanged.                                                    *)
(***************************************************************************)
EXTENDS Integers, Sequences, FiniteSets, TLC

VARIABLES
    now,          \* time.time(), in tenths of a second
    requests,     \* RateLimiter.requests: the timestamps of the admitted calls
    rl_last,      \* the last check_rate_limit call: what it saw and returned
    rl_admitted,  \* history: the time of every call that returned True
    rl_calls,     \* history: the number of check_rate_limit calls made
    filters_enabled, \* settings.filters.enabled: fixed when the filter is built
    sf_last,      \* the last validate_request call: its input and its outcome
    token_usage,  \* TokenRateLimiter.token_usage: (timestamp, tokens) tuples
    last_cleanup, \* TokenRateLimiter.last_cleanup
    tl_pc,        \* per caller of check_token_limit: "idle" or "sleeping"
    tl_tokens,    \* per caller: the requested_tokens of its call in progress
    tl_wake,      \* per caller: the time its asyncio.sleep ends
    tl_slept,     \* history, per sleeping caller: the admissions made before it slept
    tl_last,      \* the last admission: when, how much, the usage the decision
                  \* computed, the tokens truly admitted in the 60 s before it,
                  \* and the window's sum with the new sample
    tl_admitted,  \* history: (timestamp, tokens) of every admitted request
    tl_calls,     \* history: the number of check_token_limit calls begun
    tl_ticks,     \* history: the number of steps the limiter's clock has made
    st_pc,        \* the relay session: "idle", "relaying" or "closed"
    st_debug,     \* debug_mode of the session
    st_end,       \* how the upstream ended: "", "normal" or the exception raised
    st_out,       \* the frames _process_stream has yielded to the caller
    st_conn,      \* the upstream response of the session: "none", "open", "closed"
    st_at_cancel, \* history: the frames yielded when the caller cancelled
    st_headers,   \* the headers of the StreamingResponse: as built by the
                  \* handler, and as sent on by LoggingMiddleware
    mock_mode,    \* BaseAPIProxy.mock_mode (MOCK_RESPONSES), fixed at start-up
    proxy_class,  \* the proxy instance: "openai" (OpenAIProxy) or "anthropic"
                  \* (AnthropicProxy); each has its own filter, limiters and clients
    api_key,      \* the provider's API key in Settings, "" when not configured
    fw_pc,        \* the proxy: "new" before its construction, then "idle",
                  \* and in forward_request "token_wait", "stream", "retry",
                  \* "process", "fallback" or "done"
    fw_req,       \* the inbound request being forwarded
    fw_verdict,   \* validate_request for it: 0 not called, 200 returned True,
                  \* else the status of the HTTPException raised
    fw_dispatches,\* the upstream requests sent for it: client, protocol, outcome
    rt_retries,   \* _handle_rate_limit_retry: retries
    rt_waits,     \* _handle_rate_limit_retry: the asyncio.sleep calls made
    rt_result,    \* _handle_rate_limit_retry: what it returned
    fw_response,  \* what forward_request returned to the caller
    fw_count,     \* history: the number of requests begun
    client_jar,   \* self.client.cookies: the cookies of the buffered client
    streaming_jar,\* self.streaming_client.cookies
    rd_pc,        \* redact_api_key under test: "input", "once" or "twice"
    rd_text,      \* the argument given to redact_api_key
    rd_once,      \* redact_api_key(rd_text)
    rd_twice,     \* redact_api_key(rd_once)
    lg_pc,        \* the logged request: "new" before start-up, then "idle",
                  \* "received", "forwarded", "answered"
    lg_env,       \* LOG_LEVEL, the level of the root logger, whether a key is
                  \* configured
    lg_req,       \* the inbound request: whether it carries Authorization,
                  \* whether its body carries an api_key field
    lg_sink,      \* per run, the records that reached a log handler
    lg_count,     \* history: the number of requests answered
    wt_pc,        \* _calculate_wait_time under test: "input" or "done"
    wt_in,        \* its arguments: token_usage, current_time, requested_tokens
    wt_out,       \* what it returned
    gw_requests,  \* per proxy instance of app/main.py: the requests list of the
                  \* RateLimiter of its SecurityFilter
    gw_admitted,  \* history: (time, route) of every request validate_request let pass
    bk_pc,        \* the backoff of _handle_rate_limit_retry under test: "input" or "done"
    bk_in,        \* the headers of the 429 response, retries, random.random()
    bk_delay,     \* the delay given to asyncio.sleep, in milliseconds
    sn_pc,        \* a request through RequestResponseLogger: "new", "built",
                  \* "logged", "sent", "answered"
    sn_env,       \* TESTING, LOG_TOKENS, LOG_LEVEL of the process
    sn_heap,      \* the Python objects alive: dicts and lists, by identity
    sn_before,    \* the heap as it was when the last log call was made
    sn_args,      \* the objects the log calls are given, by identity
    sn_record,    \* the header entries of the last record emitted, if any
    sn_sent       \* the headers and the body of the upstream request

rl_vars == <<requests, rl_last, rl_admitted, rl_calls>>
sf_vars == <<filters_enabled, sf_last>>
st_vars == <<st_pc, st_debug, st_end, st_out, st_conn, st_at_cancel, st_headers>>
fw_vars == <<mock_mode, proxy_class, api_key, fw_pc, fw_req, fw_verdict, fw_dispatches, rt_retries,
             rt_waits, rt_result, fw_response, fw_count, client_jar, streaming_jar>>
rd_vars == <<rd_pc, rd_text, rd_once, rd_twice>>
lg_vars == <<lg_pc, lg_env, lg_req, lg_sink, lg_count>>
wt_vars == <<wt_pc, wt_in, wt_out>>
gw_vars == <<gw_requests, gw_admitted>>
bk_vars == <<bk_pc, bk_in, bk_delay>>
sn_vars == <<sn_pc, sn_env, sn_heap, sn_before, sn_args, sn_record, sn_sent>>
pf_vars == <<wt_vars, gw_vars, bk_vars, sn_vars>>
ob_vars == <<rd_vars, lg_vars, pf_vars>>
tl_vars == <<token_usage, last_cleanup, tl_pc, tl_tokens, tl_wake, tl_slept, tl_last,
             tl_admitted, tl_calls, tl_ticks>>

(***************************************************************************)
(* Bounds of the model.                                                    *)
(***************************************************************************)
MaxNow == 910
MaxCalls == 4
\* settings.filters.rate_limit as configured for the model (config.py: 100)
RateLimit == 2
\* TokenRateLimiter(tpm_limit=...) as built for the model (proxy.py: 30000)
tpm_limit == 100
\* the number of concurrent callers of check_token_limit, of their calls, and
\* of the steps of the clock between them
NumCallers == 2
MaxTokenCalls == 3
MaxTokenTicks == 2
\* the latest time a sleep may end at, in tenths of a second
MaxWake == 6000
\* the samples in a window given to _calculate_wait_time
MaxEntries == 2
\* the requests the gateway lets pass in one behaviour
MaxGatewayAdmitted == 5
\* the headers of a 429 response that the backoff is computed from
MaxHeaders == 2
\* the messages of a logged request body
MaxMessages == 2
\* the number of chunks the upstream sends in one stream
MaxChunks == 3
\* the number of inbound requests forwarded one after the other
MaxRequests == 3
\* the number of pieces a text given to redact_api_key is made of
MaxPieces == 3
\* the number of validate_request calls followed
MaxValidations == 3
\* the number of requests whose log records are followed
MaxLogged == 2

\* The steps by which the clock advances: 29.9 s, 30 s and 30.1 s, so that a
\* call can arrive 59.9 s, 60 s and 60.1 s after an earlier one.
TickSteps == {299, 300, 301}

(***************************************************************************)
(* app/security.py: RateLimiter                                            *)
(***************************************************************************)
RateLimiter_window_size == 600

\* self.requests = [t for t in self.requests if current_time - t < self.window_size]
RemoveOldRequests(reqs, current_time) ==
    SelectSeq(reqs, LAMBDA t : current_time - t < RateLimiter_window_size)

\* A plausible slip: the limit test written with > instead of >=.
check_rate_limit_off_by_one(reqs, current_time, limit) ==
    LET kept == RemoveOldRequests(reqs, current_time) IN
    IF Len(kept) > limit
    THEN [ok |-> FALSE, requests |-> kept]
    ELSE [ok |-> TRUE, requests |-> Append(kept, current_time)]

\* RateLimiter.check_rate_limit: the value returned and the new self.requests.
check_rate_limit(reqs, current_time, limit) ==
    LET kept == RemoveOldRequests(reqs, current_time) IN
    IF Len(kept) >= limit
    THEN [ok |-> FALSE, requests |-> kept]
    ELSE [ok |-> TRUE, requests |-> Append(kept, current_time)]

\* The calls admitted less than 60 s before time t (the history, not the list
\* the limiter keeps).
AdmittedInWindow(t) ==
    {i \in 1..Len(rl_admitted) : t - rl_admitted[i] < RateLimiter_window_size}

RlInit ==
    /\ requests = <<>>
    /\ rl_last = [called |-> FALSE, at |-> 0, ok |-> FALSE, full |-> FALSE,
                  before |-> <<>>, after |-> <<>>]
    /\ rl_admitted = <<>>
    /\ rl_calls = 0

\* One call of check_rate_limit() at the current time.
CheckRateLimit ==
    /\ rl_calls < MaxCalls
    /\ LET r == check_rate_limit(requests, now, RateLimit) IN
        /\ requests' = r.requests
        /\ rl_last' = [called |-> TRUE, at |-> now, ok |-> r.ok,
                       full |-> Cardinality(AdmittedInWindow(now)) >= RateLimit,
                       before |-> RemoveOldRequests(requests, now),
                       after |-> r.requests]
        /\ rl_admitted' = IF r.ok THEN Append(rl_admitted, now) ELSE rl_admitted
    /\ rl_calls' = rl_calls + 1
    /\ UNCHANGED <<now, sf_vars, ob_vars, tl_vars, st_vars, fw_vars>>

\* Time passes.
Tick ==
    /\ \E d \in TickSteps :
        /\ now + d <= MaxNow
        /\ now' = now + d
    /\ UNCHANGED <<rl_vars, sf_vars, ob_vars, tl_vars, st_vars, fw_vars>>

(***************************************************************************)
(* app/security.py: SecurityFilter                                         *)
(*                                                                         *)
(* A path and a text are sequences of words; "x in path" and re.search are *)
(* searches for a contiguous run of words. A body is a function from the   *)
(* field names it holds to their values, so that body.get(key, default) is *)
(* modelled with its default.                                              *)
(***************************************************************************)
\* settings.filters of the model: the policy of tests/test_security.py
allowed_models == {"gpt-3.5-turbo"}
max_tokens == 100
blocked_prompts == << <<"forbidden">> >>

\* needle in hay, for sequences of words
Contains(needle, hay) ==
    \E i \in 0..(Len(hay) - Len(needle)) :
        SubSeq(hay, i + 1, i + Len(needle)) = needle

\* str.lower() on the words of the model
Lower(w) == IF w = "FORBIDDEN" THEN "forbidden" ELSE w
LowerText(text) == [i \in 1..Len(text) |-> Lower(text[i])]

\* SecurityFilter._contains_blocked_content: re.search(pattern, text, re.IGNORECASE)
\* for some blocked pattern
_contains_blocked_content(text) ==
    \E k \in 1..Len(blocked_prompts) :
        Contains(LowerText(blocked_prompts[k]), LowerText(text))

\* dict.get(key, default)
Get(body, key, default) == IF key \in DOMAIN body THEN body[key] ELSE default

Accept == [status |-> 200, detail |-> <<>>]
\* raise HTTPException(status_code, detail)
Raise(status_code, detail) == [status |-> status_code, detail |-> detail]

\* The first check that raises decides; when none raises the rule returns True.
FirstRaised(checks) ==
    IF \E i \in 1..Len(checks) : checks[i].status # 200
    THEN checks[CHOOSE i \in 1..Len(checks) :
                    /\ checks[i].status # 200
                    /\ \A j \in 1..(i - 1) : checks[j].status = 200]
    ELSE Accept

\* A plausible slip: the allowlist test left out of a rule.
ModelCheck_never_raises(body) == Accept

\* "Check model": model = body.get("model", ""); raise 403 if model and
\* model not in allowed_models
ModelCheck(body) ==
    LET model == Get(body, "model", "") IN
    IF model # "" /\ model \notin allowed_models
    THEN Raise(403, <<"Model", model, "is not allowed">>)
    ELSE Accept

\* "Check max tokens": raise 403 if max_tokens and max_tokens > the ceiling
MaxTokensCheck(body) ==
    LET requested == Get(body, "max_tokens", 0) IN
    IF requested # 0 /\ requested > max_tokens
    THEN Raise(403, <<"Max tokens", ToString(requested), "exceeds limit of",
                      ToString(max_tokens)>>)
    ELSE Accept

\* One message's content: a string, or a list of items of which the text
\* items are scanned.
ContentBlocked(content) ==
    IF content.kind = "str"
    THEN _contains_blocked_content(content.val)
    ELSE \E i \in 1..Len(content.val) :
            /\ content.val[i].type = "text"
            /\ content.val[i].text # <<>>
            /\ _contains_blocked_content(content.val[i].text)

\* "Check for blocked prompts" over body.get("messages", [])
MessagesCheck(body) ==
    LET messages == Get(body, "messages", <<>>) IN
    IF \E i \in 1..Len(messages) : ContentBlocked(messages[i].content)
    THEN Raise(403, <<"The prompt contains prohibited content">>)
    ELSE Accept

\* prompt = body.get("prompt", ""), completions only
PromptCheck(body) ==
    LET prompt == Get(body, "prompt", <<>>) IN
    IF prompt # <<>> /\ _contains_blocked_content(prompt)
    THEN Raise(403, <<"The prompt contains prohibited content">>)
    ELSE Accept

\* system = body.get("system", ""), Anthropic messages only
SystemCheck(body) ==
    LET system == Get(body, "system", <<>>) IN
    IF system # <<>> /\ _contains_blocked_content(system)
    THEN Raise(403, <<"The system prompt contains prohibited content">>)
    ELSE Accept

_validate_openai_chat_completion(body) ==
    FirstRaised(<<ModelCheck(body), MaxTokensCheck(body), MessagesCheck(body)>>)

_validate_openai_completion(body) ==
    FirstRaised(<<ModelCheck(body), MaxTokensCheck(body), PromptCheck(body)>>)

_validate_openai_embedding(body) ==
    FirstRaised(<<ModelCheck(body)>>)

\* A plausible slip: the content scanned before the model and the token count
\* are looked at.
_validate_anthropic_message_scan_first(body) ==
    FirstRaised(<<MessagesCheck(body), SystemCheck(body), ModelCheck(body),
                  MaxTokensCheck(body)>>)

_validate_anthropic_message(body) ==
    FirstRaised(<<ModelCheck(body), MaxTokensCheck(body), MessagesCheck(body),
                  SystemCheck(body)>>)

\* A plausible slip: the test for the messages endpoint made first.
RuleOf_messages_first(path) ==
    IF Contains(<<"messages">>, path) THEN "message"
    ELSE IF Contains(<<"chat", "/", "completions">>, path) THEN "chat_completion"
    ELSE IF Contains(<<"completions">>, path) /\ ~Contains(<<"chat">>, path)
         THEN "completion"
    ELSE IF Contains(<<"embeddings">>, path) THEN "embedding"
    ELSE "none"

\* The rule validate_request chooses for a path; "none" when no substring matches.
RuleOf(path) ==
    IF Contains(<<"chat", "/", "completions">>, path) THEN "chat_completion"
    ELSE IF Contains(<<"completions">>, path) /\ ~Contains(<<"chat">>, path)
         THEN "completion"
    ELSE IF Contains(<<"embeddings">>, path) THEN "embedding"
    ELSE IF Contains(<<"messages">>, path) THEN "message"
    ELSE "none"

\* A plausible slip: the request-rate limiter is consulted before the policy
\* is found disabled.
validate_request_limits_first(enabled, body, path, reqs, current_time) ==
    LET r == check_rate_limit(reqs, current_time, RateLimit) IN
    IF ~r.ok
    THEN [verdict |-> Raise(429, <<"Rate limit exceeded">>),
          limited |-> TRUE, requests |-> r.requests]
    ELSE [verdict |-> Accept, limited |-> FALSE, requests |-> r.requests]

\* A plausible slip: the sample of a request that a rule then rejects is taken
\* back out of the limiter's list.
validate_request_rolls_back(enabled, body, path, reqs, current_time) ==
    IF ~enabled
    THEN [verdict |-> Accept, limited |-> FALSE, requests |-> reqs]
    ELSE LET r == check_rate_limit(reqs, current_time, RateLimit)
             verdict == CASE RuleOf(path) = "chat_completion" ->
                                 _validate_openai_chat_completion(body)
                          [] RuleOf(path) = "completion" ->
                                 _validate_openai_completion(body)
                          [] RuleOf(path) = "embedding" ->
                                 _validate_openai_embedding(body)
                          [] RuleOf(path) = "message" ->
                                 _validate_anthropic_message(body)
                          [] OTHER -> Accept
         IN
         IF ~r.ok
         THEN [verdict |-> Raise(429, <<"Rate limit exceeded">>),
               limited |-> TRUE, requests |-> r.requests]
         ELSE [verdict |-> verdict, limited |-> FALSE,
               requests |-> IF verdict.status = 200 THEN r.requests ELSE reqs]

\* SecurityFilter.validate_request: the verdict (200: returned True, otherwise
\* the HTTPException raised), whether the request-rate limiter refused, and
\* the limiter's new list.
validate_request(enabled, body, path, reqs, current_time) ==
    IF ~enabled
    THEN [verdict |-> Accept, limited |-> FALSE, requests |-> reqs]
    ELSE LET r == check_rate_limit(reqs, current_time, RateLimit) IN
         IF ~r.ok
         THEN [verdict |-> Raise(429, <<"Rate limit exceeded">>),
               limited |-> TRUE, requests |-> r.requests]
         ELSE [verdict |->
                  CASE RuleOf(path) = "chat_completion" ->
                           _validate_openai_chat_completion(body)
                    [] RuleOf(path) = "completion" ->
                           _validate_openai_completion(body)
                    [] RuleOf(path) = "embedding" ->
                           _validate_openai_embedding(body)
                    [] RuleOf(path) = "message" ->
                           _validate_anthropic_message(body)
                    [] OTHER -> Accept,
               limited |-> FALSE, requests |-> r.requests]

\* The requests of the model.
EmptyBody == [k \in {} |-> 0]
Field(k, v) == [x \in {k} |-> v]
Str(text) == [kind |-> "str", val |-> text]
List(items) == [kind |-> "list", val |-> items]

ModelParts ==
    {EmptyBody} \cup {Field("model", m) : m \in {"", "gpt-3.5-turbo", "gpt-4"}}
MaxTokensParts ==
    {EmptyBody} \cup {Field("max_tokens", n) : n \in {200}}
\* token counts that no rule refuses: zero, and the ceiling itself
SmallTokensParts == {Field("max_tokens", n) : n \in {0, max_tokens}}
ContentParts ==
    { EmptyBody,
      Field("messages", << [content |-> Str(<<"this", "is", "FORBIDDEN">>)] >>),
      Field("messages", << [content |->
                List(<< [type |-> "text", text |-> <<"forbidden">>] >>)] >>),
      Field("prompt", <<"forbidden">>),
      Field("system", <<"FORBIDDEN">>) }
Bodies ==
    {a @@ b @@ c : a \in ModelParts, b \in MaxTokensParts, c \in ContentParts}
        \cup {a @@ b : a \in {EmptyBody, Field("model", "gpt-3.5-turbo")},
                      b \in SmallTokensParts}

Paths ==
    { <<"chat", "/", "completions">>,
      <<"completions">>,
      <<"completions", "/", "chat">>,
      <<"embeddings">>,
      <<"messages">>,
      <<"messages", "/", "embeddings">>,
      <<"models">> }

SfInit ==
    /\ filters_enabled \in BOOLEAN
    /\ sf_last = [called |-> FALSE]

\* the number of validate_request calls made so far
SfCalls == IF sf_last.called THEN sf_last.nth ELSE 0

\* One call of security_filter.validate_request(body, path).
ValidateRequest ==
    \E body \in Bodies, path \in Paths :
        LET v == validate_request(filters_enabled, body, path, requests, now) IN
        /\ SfCalls < MaxValidations
        /\ requests' = v.requests
        /\ sf_last' = [called |-> TRUE, body |-> body, path |-> path,
                       status |-> v.verdict.status, detail |-> v.verdict.detail,
                       limited |-> v.limited, nth |-> SfCalls + 1]
        /\ UNCHANGED <<now, filters_enabled, rl_last, rl_admitted, rl_calls, tl_vars,
                       st_vars, fw_vars, ob_vars>>

\* A whole window passes.
WindowPasses ==
    /\ now + RateLimiter_window_size <= MaxNow
    /\ now' = now + RateLimiter_window_size
    /\ UNCHANGED <<rl_vars, sf_vars, ob_vars, tl_vars, st_vars, fw_vars>>

(***************************************************************************)
(* app/rate_limiter.py: TokenRateLimiter (the class app/proxy.py imports)  *)
(***************************************************************************)
TokenRateLimiter_window_size == 600
\* self.safety_buffer = 0.95, in hundredths
safety_buffer == 95
\* "if current_time - self.last_cleanup >= 1": 1 s
cleanup_interval == 10
\* "return wait_time + 0.1": 0.1 s
wait_buffer == 1

Callers == 1..NumCallers
\* the requested_tokens of the model: two that fit the limit one at a time but
\* not together, and one larger than the limit
Amounts == {50, 60, 200}
\* the steps of the clock: 0.5 s, 30 s and 59.5 s
TokenTickSteps == {5, 300, 595}

\* effective_limit = int(self.tpm_limit * self.safety_buffer)
effective_limit == (tpm_limit * safety_buffer) \div 100

\* TokenRateLimiter._cleanup_old_entries: the new (token_usage, last_cleanup)
_cleanup_old_entries(usage, cleaned_at, current_time) ==
    IF current_time - cleaned_at >= cleanup_interval
    THEN [token_usage |-> SelectSeq(usage,
              LAMBDA e : current_time - e[1] < TokenRateLimiter_window_size),
          last_cleanup |-> current_time]
    ELSE [token_usage |-> usage, last_cleanup |-> cleaned_at]

RECURSIVE SumTokens(_)
SumTokens(usage) ==
    IF usage = <<>> THEN 0 ELSE Head(usage)[2] + SumTokens(Tail(usage))

\* TokenRateLimiter._calculate_current_usage
_calculate_current_usage(usage) == SumTokens(usage)

\* the order of Python's sorted() on tuples
TupleLessEq(a, b) == a[1] < b[1] \/ (a[1] = b[1] /\ a[2] <= b[2])

RECURSIVE InsertSorted(_, _)
InsertSorted(x, s) ==
    IF s = <<>> THEN <<x>>
    ELSE IF TupleLessEq(x, Head(s)) THEN <<x>> \o s
    ELSE <<Head(s)>> \o InsertSorted(x, Tail(s))

RECURSIVE sorted(_)
sorted(s) == IF s = <<>> THEN <<>> ELSE InsertSorted(Head(s), sorted(Tail(s)))

\* token_timeline: (time_until_free, tokens) of the entries still to expire
TokenTimeline(usage, current_time) ==
    LET all == [i \in 1..Len(usage) |->
                   <<usage[i][1] + TokenRateLimiter_window_size - current_time,
                     usage[i][2]>>]
    IN SelectSeq(all, LAMBDA e : e[1] > 0)

\* "Find the minimum wait time that frees up enough tokens": the loop over
\* sorted(token_timeline), -1 when it ends without returning
RECURSIVE FirstSufficientWait(_, _, _, _)
FirstSufficientWait(timeline, cumulative_freed, current_usage, requested_tokens) ==
    IF timeline = <<>> THEN -1
    ELSE LET freed == cumulative_freed + Head(timeline)[2] IN
         IF current_usage - freed + requested_tokens <= effective_limit
         THEN Head(timeline)[1] + wait_buffer
         ELSE FirstSufficientWait(Tail(timeline), freed, current_usage,
                                  requested_tokens)

\* A plausible slip: no early return for an empty window, so that a request
\* that can never fit is told to wait a whole window every time.
_calculate_wait_time_no_early_return(usage, current_time, requested_tokens) ==
    LET current_usage == _calculate_current_usage(usage) IN
    IF current_usage + requested_tokens <= effective_limit THEN 0
    ELSE LET w == FirstSufficientWait(
                      sorted(TokenTimeline(usage, current_time)), 0,
                      current_usage, requested_tokens)
         IN IF w >= 0 THEN w ELSE TokenRateLimiter_window_size

\* TokenRateLimiter._calculate_wait_time
_calculate_wait_time(usage, current_time, requested_tokens) ==
    IF usage = <<>> THEN 0
    ELSE LET current_usage == _calculate_current_usage(usage) IN
         IF current_usage + requested_tokens <= effective_limit THEN 0
         ELSE LET w == FirstSufficientWait(
                           sorted(TokenTimeline(usage, current_time)), 0,
                           current_usage, requested_tokens)
              IN IF w >= 0 THEN w ELSE TokenRateLimiter_window_size

\* A plausible slip: the decision taken on a copy of token_usage read before
\* another caller's append (a suspension between the read and the write), the
\* sample then appended to the shared list.
check_token_limit_stale_read(usage, cleaned_at, current_time, requested_tokens) ==
    LET c == _cleanup_old_entries(usage, cleaned_at, current_time)
        stale == IF c.token_usage = <<>> THEN <<>>
                 ELSE SubSeq(c.token_usage, 1, Len(c.token_usage) - 1)
        current_usage == _calculate_current_usage(stale)
        wait_time ==
            IF current_usage + requested_tokens > effective_limit
            THEN _calculate_wait_time(stale, current_time, requested_tokens)
            ELSE 0
    IN IF wait_time > 0
       THEN [admitted |-> FALSE, wait |-> wait_time, current_usage |-> current_usage,
             token_usage |-> c.token_usage, last_cleanup |-> c.last_cleanup]
       ELSE [admitted |-> TRUE, wait |-> 0, current_usage |-> current_usage,
             token_usage |-> Append(c.token_usage, <<current_time, requested_tokens>>),
             last_cleanup |-> c.last_cleanup]

\* One pass of TokenRateLimiter.check_token_limit, from its entry to its
\* return or to its asyncio.sleep: wait = 0 and the sample appended when the
\* request is admitted, wait > 0 when the caller is to sleep and check again.
check_token_limit(usage, cleaned_at, current_time, requested_tokens) ==
    LET c == _cleanup_old_entries(usage, cleaned_at, current_time)
        current_usage == _calculate_current_usage(c.token_usage)
        wait_time ==
            IF current_usage + requested_tokens > effective_limit
            THEN _calculate_wait_time(c.token_usage, current_time, requested_tokens)
            ELSE 0
    IN IF wait_time > 0
       THEN [admitted |-> FALSE, wait |-> wait_time, current_usage |-> current_usage,
             token_usage |-> c.token_usage, last_cleanup |-> c.last_cleanup]
       ELSE [admitted |-> TRUE, wait |-> 0, current_usage |-> current_usage,
             token_usage |-> Append(c.token_usage, <<current_time, requested_tokens>>),
             last_cleanup |-> c.last_cleanup]

\* The tokens admitted less than 60 s before time t, by the history.
AdmittedTokensInWindow(history, t) ==
    SumTokens(SelectSeq(history,
                        LAMBDA e : t - e[1] < TokenRateLimiter_window_size))

TlInit ==
    /\ token_usage = <<>>
    /\ last_cleanup = 0
    /\ tl_pc = [c \in Callers |-> "idle"]
    /\ tl_tokens = [c \in Callers |-> 0]
    /\ tl_wake = [c \in Callers |-> 0]
    /\ tl_slept = [c \in Callers |-> 0]
    /\ tl_last = [called |-> FALSE, at |-> 0, tokens |-> 0, window_sum |-> 0,
                  usage_seen |-> 0, in_window |-> 0,
                  waited |-> FALSE]
    /\ tl_admitted = <<>>
    /\ tl_calls = 0
    /\ tl_ticks = 0

\* What one pass of check_token_limit by caller c, asking for n tokens, does to
\* the limiter and to the caller.
TokenPass(c, n, waited) ==
    LET r == check_token_limit(token_usage, last_cleanup, now, n) IN
    /\ token_usage' = r.token_usage
    /\ last_cleanup' = r.last_cleanup
    /\ tl_tokens' = [tl_tokens EXCEPT ![c] = IF r.admitted THEN 0 ELSE n]
    /\ IF r.admitted
       THEN /\ tl_pc' = [tl_pc EXCEPT ![c] = "idle"]
            /\ tl_wake' = [tl_wake EXCEPT ![c] = 0]
            /\ tl_slept' = [tl_slept EXCEPT ![c] = 0]
            /\ tl_admitted' = Append(tl_admitted, <<now, n>>)
            /\ tl_last' = [called |-> TRUE, at |-> now, tokens |-> n,
                           usage_seen |-> r.current_usage,
                           in_window |-> AdmittedTokensInWindow(tl_admitted, now),
                           window_sum |->
                               AdmittedTokensInWindow(tl_admitted, now) + n,
                           waited |-> waited]
       ELSE /\ tl_pc' = [tl_pc EXCEPT ![c] = "sleeping"]
            /\ tl_wake' = [tl_wake EXCEPT ![c] = now + r.wait]
            /\ tl_slept' = [tl_slept EXCEPT ![c] = Len(tl_admitted)]
            /\ UNCHANGED <<tl_admitted, tl_last>>

\* A caller enters check_token_limit(requested_tokens). The callers are alike:
\* the call is the one of the first caller that is not suspended.
TokenCall ==
    \E c \in Callers, n \in Amounts :
        /\ tl_pc[c] = "idle"
        /\ \A d \in 1..(c - 1) : tl_pc[d] = "sleeping"
        /\ tl_calls < MaxTokenCalls
        /\ tl_calls' = tl_calls + 1
        /\ TokenPass(c, n, FALSE)
        /\ UNCHANGED <<now, tl_ticks, rl_vars, sf_vars, ob_vars, st_vars, fw_vars>>

\* asyncio.sleep(wait_time) is over: "recursively check again".
TokenResume ==
    \E c \in Callers :
        /\ tl_pc[c] = "sleeping"
        /\ now >= tl_wake[c]
        /\ TokenPass(c, tl_tokens[c], TRUE)
        /\ UNCHANGED <<now, tl_calls, tl_ticks, rl_vars, sf_vars, ob_vars, st_vars, fw_vars>>

\* Time passes: by a step, or to the end of a caller's sleep.
TokenTick ==
    /\ tl_ticks < MaxTokenTicks
    /\ tl_ticks' = tl_ticks + 1
    /\ \E t \in {now + d : d \in TokenTickSteps}
                \cup {tl_wake[c] : c \in {x \in Callers : tl_pc[x] = "sleeping"}} :
        /\ t > now
        /\ t <= MaxNow
        /\ now' = t
    /\ UNCHANGED <<rl_vars, sf_vars, ob_vars, st_vars, fw_vars, token_usage, last_cleanup, tl_pc,
                   tl_tokens, tl_wake, tl_slept, tl_last, tl_admitted, tl_calls>>

\* a lull between calls: 59.5 s, just short of the window
LullSteps == {595}

\* A lull: time passes while no caller is suspended.
TokenLull ==
    /\ \A c \in Callers : tl_pc[c] = "idle"
    /\ \E d \in LullSteps :
        /\ now + d <= MaxNow
        /\ now' = now + d
    /\ UNCHANGED <<rl_vars, sf_vars, ob_vars, st_vars, fw_vars, tl_vars>>

\* asyncio.sleep(wait_time) runs its course: time passes to the end of a
\* caller's sleep, however many steps the clock has made.
TokenSleepEnds ==
    /\ \E c \in Callers :
        /\ tl_pc[c] = "sleeping"
        /\ tl_wake[c] > now
        /\ tl_wake[c] <= MaxWake
        /\ now' = tl_wake[c]
    /\ UNCHANGED <<rl_vars, sf_vars, ob_vars, st_vars, fw_vars, tl_vars>>

(***************************************************************************)
(* app/proxy.py: BaseAPIProxy._process_stream                              *)
(*                                                                         *)
(* A frame is what one yield hands to the caller: an upstream chunk passed *)
(* on as it came (a data event, or the upstream's own "data: [DONE]"), the *)
(* relay's "data: [DONE]", or the relay's "data: {error}" frame. The       *)
(* upstream's [DONE] and the relay's are the same bytes, hence one value.  *)
(***************************************************************************)
Frame(payload, type, message) ==
    [payload |-> payload, type |-> type, message |-> message]
\* b"data: {...}\n\n" as sent by the upstream
DataFrame == Frame("json", "", "")
\* b"data: [DONE]\n\n"
DoneFrame == Frame("[DONE]", "", "")
\* f"data: {error_msg}\n\n" with error_msg = {"error": {"message", "type", ...}}
ErrorFrame(message) == Frame("error", "stream_error", message)

\* the chunks response.aiter_bytes() may yield
UpstreamChunks == {DataFrame, DoneFrame}
\* the exceptions the except clauses of _process_stream tell apart
StreamExceptions ==
    {"StreamClosed", "ReadTimeout", "WriteTimeout", "ConnectTimeout",
     "HTTPStatusError", "Exception"}

\* the "message" each except clause puts in its error frame
StreamErrorMessage(e) ==
    CASE e = "StreamClosed" -> "Stream was closed unexpectedly"
      [] e = "ReadTimeout" -> "Stream read timeout"
      [] e = "WriteTimeout" -> "Stream write timeout"
      [] e = "ConnectTimeout" -> "Stream connection timeout"
      [] e = "HTTPStatusError" -> "Stream HTTP error: <status_code>"
      [] OTHER -> "Unexpected stream error: <str(e)>"

\* A plausible slip: an except clause that yields its error frame and forgets
\* the terminal frame.
OnStreamException_no_done(e) ==
    IF e = "WriteTimeout"
    THEN << ErrorFrame(StreamErrorMessage(e)) >>
    ELSE << ErrorFrame(StreamErrorMessage(e)), DoneFrame >>

\* what the except clause for e yields: the error frame, then [DONE]
OnStreamException(e) == << ErrorFrame(StreamErrorMessage(e)), DoneFrame >>

\* what _process_stream yields when aiter_bytes() is exhausted (line 106)
OnStreamExhausted == << DoneFrame >>

\* what reading a response that is already closed raises: httpx.StreamClosed
\* from aiter_bytes(), or the error of entering "async with response"
ReadOnClosedRaises == {"StreamClosed", "Exception"}

\* the signals of a caller that goes away; both derive from BaseException
CancelSignals == {"GeneratorExit", "CancelledError"}
\* A plausible slip: a clause that catches BaseException and answers the
\* cancellation like any other error.
OnStreamCancelled_caught(e) == OnStreamException("Exception")
\* what _process_stream yields when it is cancelled: nothing, no clause matches
OnStreamCancelled(e) == <<>>

\* Headers: functions from lower-case header names to values.
NoHeaders == [h \in {} |-> ""]
\* the headers of the upstream's streamed response
UpstreamHeaders ==
    { NoHeaders,
      ("content-type" :> "application/json") @@ ("content-length" :> "120"),
      ("content-type" :> "text/event-stream") @@ ("transfer-encoding" :> "chunked")
          @@ ("access-control-allow-origin" :> "https://platform.openai.com"),
      ("content-length" :> "120") @@ ("set-cookie" :> "cf_clearance=1")
          @@ ("cache-control" :> "private") @@ ("connection" :> "close") }
\* "Create the streaming response with proper headers"
SSEHeaders ==
    ("content-type" :> "text/event-stream") @@ ("cache-control" :> "no-cache")
        @@ ("connection" :> "keep-alive") @@ ("transfer-encoding" :> "chunked")
\* "Copy relevant headers from the upstream response", and any Set-Cookie
CopiedHeaders ==
    {"access-control-allow-origin", "access-control-allow-methods",
     "access-control-allow-headers", "access-control-expose-headers",
     "access-control-allow-credentials", "set-cookie"}

\* A plausible slip: every header of the upstream passed on.
StreamingResponseHeaders_copies_all(up) ==
    SSEHeaders @@ ("x-accel-buffering" :> "no") @@ up
\* the headers _handle_streaming_request gives its StreamingResponse
StreamingResponseHeaders(up) ==
    SSEHeaders @@ ("x-accel-buffering" :> "no")
        @@ [h \in (CopiedHeaders \cap DOMAIN up) |-> up[h]]
\* the headers _handle_mock_streaming_request gives its StreamingResponse
MockStreamingHeaders ==
    SSEHeaders @@ ("access-control-allow-origin" :> "*")
        @@ ("access-control-allow-methods" :> "GET, POST, PUT, DELETE, OPTIONS")
        @@ ("access-control-allow-headers" :>
                "Content-Type, Authorization, OpenAI-Organization")
\* LoggingMiddleware.dispatch: "For streaming responses, ensure
\* Transfer-Encoding is set and Content-Length is removed"
LoggingMiddleware_dispatch(headers) ==
    IF Get(headers, "content-type", "") = "text/event-stream"
    THEN [h \in (DOMAIN headers \cup {"transfer-encoding"}) \ {"content-length"} |->
             IF h = "transfer-encoding" THEN "chunked" ELSE headers[h]]
    ELSE headers

StInit ==
    /\ st_pc = "idle"
    /\ st_debug = FALSE
    /\ st_end = ""
    /\ st_out = <<>>
    /\ st_conn = "none"
    /\ st_at_cancel = <<>>
    /\ st_headers = [built |-> NoHeaders, sent |-> NoHeaders]

\* _handle_streaming_request, the upstream answering with a status other than
\* 429: the stream is opened by "async with client.stream(...) as response",
\* the StreamingResponse over _process_stream(response, ...) is built, and the
\* return leaves the "async with", which closes the response.
StreamingRequest ==
    /\ st_pc = "idle"
    /\ \E up \in UpstreamHeaders :
        st_headers' = [built |-> StreamingResponseHeaders(up),
                       sent |-> LoggingMiddleware_dispatch(StreamingResponseHeaders(up))]
    /\ st_conn' = "closed"
    /\ st_pc' = "returned"
    /\ UNCHANGED <<st_debug, st_end, st_out, st_at_cancel, now, rl_vars, sf_vars, ob_vars,
                   tl_vars, fw_vars>>

\* _handle_mock_streaming_request: the StreamingResponse over the mock chunks.
MockStreamingRequest ==
    /\ st_pc = "idle"
    /\ st_headers' = [built |-> MockStreamingHeaders,
                      sent |-> LoggingMiddleware_dispatch(MockStreamingHeaders)]
    /\ st_pc' = "mock"
    /\ UNCHANGED <<st_debug, st_end, st_out, st_conn, st_at_cancel, now, rl_vars,
                   sf_vars, ob_vars, tl_vars, fw_vars>>

\* The caller starts to iterate _process_stream(response, request_id, debug_mode):
\* over the response _handle_streaming_request left behind, or over a response
\* handed to it open.
StreamOpen ==
    /\ st_pc \in {"idle", "returned"}
    /\ st_pc' = "relaying"
    /\ st_debug' \in BOOLEAN
    /\ st_conn' = IF st_pc = "idle" THEN "open" ELSE st_conn
    /\ UNCHANGED <<st_end, st_out, st_at_cancel, st_headers, now, rl_vars, sf_vars, ob_vars,
                   tl_vars, fw_vars>>

\* aiter_bytes() yields a chunk: it is logged in debug mode and yielded as is.
StreamChunk ==
    /\ st_pc = "relaying"
    /\ st_conn = "open"
    /\ Len(st_out) < MaxChunks
    /\ \E chunk \in UpstreamChunks : st_out' = Append(st_out, chunk)
    /\ UNCHANGED <<st_pc, st_debug, st_end, st_conn, st_at_cancel, st_headers, now,
                   rl_vars, sf_vars, ob_vars, tl_vars, fw_vars>>

\* aiter_bytes() is exhausted: the upstream closed the stream normally.
StreamExhausted ==
    /\ st_pc = "relaying"
    /\ st_conn = "open"
    /\ st_out' = st_out \o OnStreamExhausted
    /\ st_end' = "normal"
    /\ st_pc' = "closed"
    /\ st_conn' = "closed"
    /\ UNCHANGED <<st_debug, st_at_cancel, st_headers, now, rl_vars, sf_vars, ob_vars, tl_vars,
                   fw_vars>>

\* Reading the upstream raises: the matching except clause runs.
StreamException ==
    /\ st_pc = "relaying"
    /\ \E e \in StreamExceptions :
        /\ st_conn = "closed" => e \in ReadOnClosedRaises
        /\ st_out' = st_out \o OnStreamException(e)
        /\ st_end' = e
    /\ st_pc' = "closed"
    /\ st_conn' = "closed"
    /\ UNCHANGED <<st_debug, st_at_cancel, st_headers, now, rl_vars, sf_vars, ob_vars, tl_vars,
                   fw_vars>>

\* The caller goes away while the generator is suspended, at a yield or
\* waiting for the next chunk: the generator is closed (GeneratorExit) or its
\* task cancelled (CancelledError),
\* no except clause of _process_stream catches either, and "async with
\* response" closes the response on the way out.
StreamCancel ==
    /\ st_pc = "relaying"
    /\ \E e \in CancelSignals :
        /\ st_out' = st_out \o OnStreamCancelled(e)
        /\ st_end' = e
    /\ st_at_cancel' = st_out
    /\ st_pc' = "cancelled"
    /\ st_conn' = "closed"
    /\ UNCHANGED <<st_debug, st_headers, now, rl_vars, sf_vars, ob_vars, tl_vars, fw_vars>>

(***************************************************************************)
(* app/proxy.py: OpenAIProxy.forward_request, AnthropicProxy.forward_request *)
(* and _handle_rate_limit_retry                                            *)
(*                                                                         *)
(* One inbound request is forwarded at a time. Each upstream request sent  *)
(* for it is recorded with the client that sent it, that client's protocol *)
(* and what came back: an HTTP response or an httpx exception.             *)
(***************************************************************************)
\* self.max_retries = 3
max_retries == 3
\* body.get("max_tokens", 2000)
default_max_tokens == 2000

\* what one upstream request comes back with
Responded(status) == [kind |-> "response", status |-> status, error |-> ""]
Failed(e) == [kind |-> "exception", status |-> 0, error |-> e]
NoOutcome == [kind |-> "none", status |-> 0, error |-> ""]
UpstreamOutcomes ==
    {Responded(200), Responded(500), Responded(429),
     Failed("ConnectError"), Failed("ReadTimeout")}

\* what forward_request returns
NoResponse ==
    [kind |-> "none", status |-> 0, type |-> "", request_id |-> 0, path |-> <<>>]
\* SafeJSONResponse(status_code, content={"error": {"message", "type"}})
Envelope(status, type) ==
    [kind |-> "envelope", status |-> status, type |-> type, request_id |-> 0,
     path |-> <<>>]
\* the upstream's own status and body, passed on
Upstream(status) ==
    [kind |-> "upstream", status |-> status, type |-> "", request_id |-> 0,
     path |-> <<>>]
\* StreamingResponse(_process_stream(...), status_code=response.status_code)
StreamingResponse(status) ==
    [kind |-> "stream", status |-> status, type |-> "", request_id |-> 0,
     path |-> <<>>]
\* SafeJSONResponse(content=self._get_mock_response(body)), or the mock stream
MockResponse ==
    [kind |-> "mock", status |-> 200, type |-> "", request_id |-> 0, path |-> <<>>]
\* _handle_rate_limit_retry, retries exhausted: JSONResponse(status_code=429,
\* {"error": {"type": "rate_limit_error", "request_id", "path", "code": 429}})
RateLimitEnvelope(request_id, path) ==
    [kind |-> "envelope", status |-> 429, type |-> "rate_limit_error",
     request_id |-> request_id, path |-> path]

\* A plausible slip: the loop guard off by one.
ShouldAttempt_one_more(retries) == retries <= max_retries
\* "while retries < self.max_retries"
ShouldAttempt(retries) == retries < max_retries

\* A plausible slip: server errors retried like rate limiting.
IsRateLimited_or_server_error(status) == status = 429 \/ status >= 500
\* "if response.status_code != 429: return response"
IsRateLimited(status) == status = 429

\* A plausible slip: only the request-rate refusal ends the request.
SecurityRejects_only_429(verdict) == verdict.status = 429
\* "except HTTPException as exc: return SafeJSONResponse(exc.status_code, ...)"
SecurityRejects(verdict) == verdict.status # 200

\* len() of the words of the model
WordLen(w) ==
    CASE w = "this" -> 4
      [] w = "is" -> 2
      [] w = "FORBIDDEN" -> 9
      [] w = "forbidden" -> 9
      [] OTHER -> 5
RECURSIVE TextLen(_)
\* len(content): the words and the spaces between them
TextLen(text) ==
    IF text = <<>> THEN 0
    ELSE WordLen(Head(text)) + (IF Len(text) > 1 THEN 1 ELSE 0) + TextLen(Tail(text))

RECURSIVE MessageTokens(_)
\* "Rough estimation: 1 token = 4 characters", over the string contents
MessageTokens(messages) ==
    IF messages = <<>> THEN 0
    ELSE (IF Head(messages).content.kind = "str"
          THEN TextLen(Head(messages).content.val) \div 4 ELSE 0)
         + MessageTokens(Tail(messages))

\* total_tokens of OpenAIProxy.forward_request
total_tokens(body) ==
    MessageTokens(Get(body, "messages", <<>>))
        + Get(body, "max_tokens", default_max_tokens)

\* is_streaming: body["stream"] is True
is_streaming(body) == Get(body, "stream", FALSE) = TRUE

\* the paths on which OpenAIProxy consults the token limiter
TokenLimitedPaths == { <<"chat", "/", "completions">>, <<"completions">> }

\* OpenAIProxy: "if path.startswith('v1/'): path = path[3:]"
StripV1(path) ==
    IF Len(path) >= 2 /\ SubSeq(path, 1, 2) = <<"v1", "/">>
    THEN SubSeq(path, 3, Len(path)) ELSE path

\* the path forward_request works with
FwPath(req) == IF req.provider = "openai" THEN StripV1(req.path) ELSE req.path
\* the body forward_request works with: parsed for POST, {} otherwise
FwBody(req) == IF req.method = "POST" THEN req.body ELSE EmptyBody

\* A plausible slip: the 429 is relayed as a stream like any other status.
StreamingResult_streams_429(o, parsed) ==
    IF o.kind = "response" THEN StreamingResponse(o.status)
    ELSE Envelope(500, "stream_error")
\* _handle_streaming_request: what it returns for the upstream's outcome;
\* `parsed` tells whether the body of a 429 was JSON
StreamingResult(o, parsed) ==
    IF o.kind = "response"
    THEN IF o.status = 429
         THEN IF parsed THEN Upstream(429) ELSE Envelope(429, "rate_limit_error")
         ELSE StreamingResponse(o.status)
    ELSE IF o.error \in {"ConnectTimeout", "ReadTimeout", "WriteTimeout"}
         THEN Envelope(504, "stream_error")
         ELSE Envelope(500, "stream_error")

\* The inbound requests of the model. A body is empty, bytes that are not
\* UTF-8 ("undecodable"), text that is not JSON ("invalid") or a JSON object;
\* "authorized" tells whether the caller sends the provider's credential
\* header; the Anthropic paths are those that need no conversion of the body.
FwBodies ==
    { Field("model", "gpt-3.5-turbo") @@ Field("max_tokens", 50),
      Field("model", "gpt-4"),
      Field("model", "gpt-3.5-turbo") @@ Field("max_tokens", 50)
          @@ Field("stream", TRUE),
      Field("model", "gpt-3.5-turbo") @@ Field("max_tokens", 50)
          @@ Field("messages", << [content |-> Str(<<"this", "is", "FORBIDDEN">>)] >>) }
FwPayloads ==
    {[method |-> "GET", body_bytes |-> "none", body |-> EmptyBody]}
    \cup {[method |-> "POST", body_bytes |-> b, body |-> EmptyBody] :
             b \in {"empty", "invalid", "undecodable"}}
    \cup {[method |-> "POST", body_bytes |-> "json", body |-> b] : b \in FwBodies}
FwTargets ==
    {[provider |-> "openai", authorized |-> TRUE, path |-> p] :
        p \in { <<"chat", "/", "completions">>,
                <<"v1", "/", "chat", "/", "completions">>,
                <<"models">> }}
    \cup {[provider |-> "openai", authorized |-> FALSE,
           path |-> <<"chat", "/", "completions">>]}
    \cup {[provider |-> "anthropic", authorized |-> TRUE, path |-> p] :
             p \in { <<"messages">>, <<"models">> }}
    \cup {[provider |-> "anthropic", authorized |-> FALSE, path |-> <<"messages">>]}
\* request.cookies: none, or the session cookie of the caller
request_cookie == "session_id"
RequestCookies == { {}, {request_cookie} }
\* the model lists are fetched with GET, everything else is posted; the
\* callers that send a cookie are those that fetch the model lists
FwInputs ==
    {in \in FwTargets \X FwPayloads \X RequestCookies :
        /\ (in[2].method = "GET") <=> (in[1].path = <<"models">>)
        /\ in[3] # {} => in[1].path = <<"models">>}
NoRequest ==
    [provider |-> "", authorized |-> FALSE, path |-> <<>>, method |-> "",
     body_bytes |-> "", body |-> EmptyBody, cookies |-> {}, request_id |-> 0]

FwInit ==
    /\ mock_mode = FALSE
    /\ proxy_class = ""
    /\ api_key = ""
    /\ fw_pc = "new"
    /\ fw_req = NoRequest
    /\ fw_verdict = 0
    /\ fw_dispatches = <<>>
    /\ rt_retries = 0
    /\ rt_waits = <<>>
    /\ rt_result = NoOutcome
    /\ fw_response = NoResponse
    /\ fw_count = 0
    /\ client_jar = {}
    /\ streaming_jar = {}

\* the keys Settings may hold
ConfiguredKeys == {"", "sk-configured"}
\* Settings.get_openai_headers: "Authorization": f"Bearer {self.openai_api_key}"
Bearer(key) == IF key = "" THEN "Bearer " ELSE "Bearer sk-configured"
\* orig_headers = dict(request.headers): the names as the server delivers
\* them, in lower case
orig_headers(req) ==
    IF ~req.authorized THEN NoHeaders
    ELSE IF req.provider = "openai" THEN ("authorization" :> "Bearer sk-caller")
    ELSE ("x-api-key" :> "sk-caller")
\* the credential header of the outbound request:
\* orig_headers.get("Authorization", self.headers.get("Authorization")) for
\* OpenAI, orig_headers.get("x-api-key", self.headers.get("x-api-key")) for
\* Anthropic
OutboundCredential(req, key) ==
    IF req.provider = "openai"
    THEN Get(orig_headers(req), "Authorization", Bearer(key))
    ELSE Get(orig_headers(req), "x-api-key", key)

\* the cookie the upstream of the model sets, with some of its 200 responses
\* (the clearance cookie of tests/test_cookies_session.py)
upstream_cookie == "cf_clearance"
SetsCookie(o, set_cookie) == set_cookie => o = Responded(200)

\* One upstream request: the client that sends it ("primary": self.client,
\* "retry": the httpx.AsyncClient of _handle_rate_limit_retry, "fallback": the
\* http2=False client), its protocol, what comes back, whether that carries
\* a JSON body, whether it carries Set-Cookie, the cookie jar of the sending
\* client, the cookies the proxy holds in either jar at that time, and the
\* cookies both jars hold, and the credential header the request carries.
Dispatch(client, http2, o, json_body, set_cookie, jar) ==
    [client |-> client, http2 |-> http2, outcome |-> o, json_body |-> json_body,
     set_cookie |-> set_cookie, jar |-> jar, known |-> client_jar \cup streaming_jar,
     both |-> client_jar \cap streaming_jar,
     credential |-> OutboundCredential(fw_req, api_key)]

\* 'if "set-cookie" in response_headers': self.client.cookies.extract_cookies,
\* then every cookie of self.client's jar is set in self.streaming_client's
LearnCookie(found) ==
    IF found
    THEN /\ client_jar' = client_jar \cup {upstream_cookie}
         /\ streaming_jar' = streaming_jar \cup client_jar \cup {upstream_cookie}
    ELSE UNCHANGED <<client_jar, streaming_jar>>

\* OpenAIProxy.forward_request: "for name, value in request_cookies.items()"
\* sets every cookie of the request in both jars; AnthropicProxy.forward_request
\* does not read request.cookies
SetRequestCookies(req) ==
    IF req.provider = "openai"
    THEN /\ client_jar' = client_jar \cup req.cookies
         /\ streaming_jar' = streaming_jar \cup req.cookies
    ELSE UNCHANGED <<client_jar, streaming_jar>>

\* BaseAPIProxy.__init__: mock_mode is read from MOCK_RESPONSES; the proxy's
\* __init__: self.headers is built from the key of Settings.
ProxyInit ==
    /\ fw_pc = "new"
    /\ fw_pc' = "idle"
    /\ mock_mode' \in BOOLEAN
    /\ proxy_class' \in {"openai", "anthropic"}
    /\ api_key' \in ConfiguredKeys
    /\ UNCHANGED <<now, rl_vars, sf_vars, ob_vars, tl_vars, st_vars, fw_req, fw_verdict,
                   fw_dispatches, rt_retries, rt_waits, rt_result, fw_response,
                   fw_count, client_jar, streaming_jar>>

\* forward_request from the mock-mode test on, at time `now`: the mock
\* response, or the security check and, when it passes, the choice between
\* the streaming call and the retrying call.
FwAfterBody(req) ==
    IF mock_mode
    THEN /\ fw_pc' = "done"
         /\ fw_response' = MockResponse
         /\ UNCHANGED <<fw_verdict, requests>>
    ELSE LET v == validate_request(filters_enabled, FwBody(req), FwPath(req),
                                   requests, now) IN
         /\ requests' = v.requests
         /\ fw_verdict' = v.verdict.status
         /\ IF SecurityRejects(v.verdict)
            THEN /\ fw_pc' = "done"
                 /\ fw_response' = Envelope(v.verdict.status, "security_filter_error")
            ELSE /\ fw_pc' = IF is_streaming(FwBody(req)) THEN "stream" ELSE "retry"
                 /\ fw_response' = NoResponse

\* forward_request is called: the credential check (OpenAI), the body read and
\* parsed, the token limiter consulted (OpenAI, completions paths), and on to
\* FwAfterBody unless the limiter puts the request to sleep.
FwStart ==
    \E in \in FwInputs :
        LET target == in[1]
            payload == in[2]
            req == [provider |-> target.provider, authorized |-> target.authorized,
                    path |-> target.path, method |-> payload.method,
                    body_bytes |-> payload.body_bytes, body |-> payload.body,
                    cookies |-> in[3], request_id |-> fw_count + 1]
            limited == /\ req.provider = "openai"
                       /\ req.method = "POST"
                       /\ FwPath(req) \in TokenLimitedPaths
            pass == check_token_limit(token_usage, last_cleanup, now,
                                      total_tokens(req.body))
        IN
        /\ fw_pc = "idle"
        /\ fw_count < MaxRequests
        /\ req.provider = proxy_class
        /\ fw_count' = fw_count + 1
        /\ fw_req' = req
        /\ fw_dispatches' = <<>>
        /\ rt_retries' = 0
        /\ rt_waits' = <<>>
        /\ rt_result' = NoOutcome
        /\ SetRequestCookies(req)
        /\ IF req.provider = "openai" /\ OutboundCredential(req, api_key) = ""
           THEN /\ fw_pc' = "done"
                /\ fw_response' = Envelope(401, "api_key_error")
                /\ fw_verdict' = 0
                /\ UNCHANGED <<requests, token_usage, last_cleanup, tl_pc, tl_tokens,
                               tl_wake, tl_slept, tl_last, tl_admitted>>
           ELSE IF req.method = "POST" /\ req.body_bytes \in {"empty", "invalid"}
           THEN /\ fw_pc' = "done"
                /\ fw_response' = Envelope(400, "invalid_request_error")
                /\ fw_verdict' = 0
                /\ UNCHANGED <<requests, token_usage, last_cleanup, tl_pc, tl_tokens,
                               tl_wake, tl_slept, tl_last, tl_admitted>>
           ELSE IF req.method = "POST" /\ req.body_bytes = "undecodable"
           THEN /\ fw_pc' = "done"
                /\ fw_response' = Envelope(400, "request_error")
                /\ fw_verdict' = 0
                /\ UNCHANGED <<requests, token_usage, last_cleanup, tl_pc, tl_tokens,
                               tl_wake, tl_slept, tl_last, tl_admitted>>
           ELSE IF limited
           THEN /\ TokenPass(1, total_tokens(req.body), FALSE)
                /\ IF pass.admitted
                   THEN FwAfterBody(req)
                   ELSE /\ fw_pc' = "token_wait"
                        /\ fw_response' = NoResponse
                        /\ fw_verdict' = 0
                        /\ UNCHANGED requests
           ELSE /\ FwAfterBody(req)
                /\ UNCHANGED <<token_usage, last_cleanup, tl_pc, tl_tokens, tl_wake,
                               tl_slept, tl_last, tl_admitted>>
        /\ UNCHANGED <<now, rl_last, rl_admitted, rl_calls, sf_vars, ob_vars, st_vars,
                       tl_calls, tl_ticks, mock_mode, proxy_class, api_key>>

\* check_token_limit: asyncio.sleep(wait_time) runs its course.
FwTokenSleep ==
    /\ fw_pc = "token_wait"
    /\ now < tl_wake[1]
    /\ tl_wake[1] <= MaxNow
    /\ now' = tl_wake[1]
    /\ UNCHANGED <<rl_vars, sf_vars, ob_vars, tl_vars, st_vars, fw_vars>>

\* check_token_limit checks again after its sleep, and forward_request goes on
\* when the request is admitted.
FwTokenResume ==
    LET n == tl_tokens[1]
        pass == check_token_limit(token_usage, last_cleanup, now, n)
    IN
    /\ fw_pc = "token_wait"
    /\ now >= tl_wake[1]
    /\ TokenPass(1, n, TRUE)
    /\ IF pass.admitted
       THEN FwAfterBody(fw_req)
       ELSE UNCHANGED <<fw_pc, fw_response, fw_verdict, requests>>
    /\ UNCHANGED <<now, rl_last, rl_admitted, rl_calls, sf_vars, ob_vars, st_vars, tl_calls,
                   tl_ticks, mock_mode, proxy_class, api_key, fw_req, fw_dispatches, rt_retries, rt_waits,
                   rt_result, fw_count, client_jar, streaming_jar>>

\* The streaming branch: _handle_streaming_request(self.client, ...) sends one
\* upstream request on the shared HTTP/2 client and its result is returned.
FwStream ==
    /\ fw_pc = "stream"
    /\ \E o \in UpstreamOutcomes, parsed \in BOOLEAN, set_cookie \in BOOLEAN :
        /\ SetsCookie(o, set_cookie)
        /\ parsed => o.kind = "response"
        /\ o = Responded(200) => parsed
        /\ fw_dispatches' = Append(fw_dispatches,
               Dispatch("primary", TRUE, o, parsed, set_cookie, client_jar))
        /\ fw_response' = StreamingResult(o, parsed)
        /\ client_jar' = IF set_cookie
                         THEN client_jar \cup {upstream_cookie} ELSE client_jar
    /\ fw_pc' = "done"
    /\ UNCHANGED <<now, rl_vars, sf_vars, ob_vars, tl_vars, st_vars, mock_mode, proxy_class, api_key, fw_req,
                   fw_verdict, rt_retries, rt_waits, rt_result, fw_count,
                   streaming_jar>>

\* A plausible slip: the attempt that uses up the last retry is not waited
\* out, the envelope being built at once.
SleepsAfter_not_on_last(o, retries) ==
    IF retries + 1 < max_retries
    THEN << IF o.kind = "response" THEN "rate_limit" ELSE "error" >>
    ELSE <<>>
\* the asyncio.sleep calls of a turn that did not return: "await
\* asyncio.sleep(delay)" after a 429, "await asyncio.sleep(
\* self.base_retry_delay * (2 ** retries))" after an exception, whatever the
\* value of retries
SleepsAfter(o, retries) ==
    << IF o.kind = "response" THEN "rate_limit" ELSE "error" >>

\* One turn of the loop of _handle_rate_limit_retry: a fresh httpx.AsyncClient
\* (HTTP/1.1) sends the request; a response other than 429 is returned, a 429
\* is waited out and counted, and any exception is counted and waited out too.
FwAttempt ==
    /\ fw_pc = "retry"
    /\ ShouldAttempt(rt_retries)
    /\ \E o \in UpstreamOutcomes, set_cookie \in BOOLEAN :
        /\ SetsCookie(o, set_cookie)
        /\ fw_dispatches' = Append(fw_dispatches,
               Dispatch("retry", FALSE, o, o.kind = "response", set_cookie, {}))
        /\ IF o.kind = "response" /\ ~IsRateLimited(o.status)
           THEN /\ rt_result' = o
                /\ fw_pc' = "process"
                /\ UNCHANGED <<rt_retries, rt_waits>>
           ELSE /\ rt_retries' = rt_retries + 1
                /\ rt_waits' = rt_waits \o SleepsAfter(o, rt_retries)
                /\ UNCHANGED <<rt_result, fw_pc>>
    /\ UNCHANGED <<now, rl_vars, sf_vars, ob_vars, tl_vars, st_vars, mock_mode, proxy_class, api_key, fw_req,
                   fw_verdict, fw_response, fw_count, client_jar, streaming_jar>>

\* The loop of _handle_rate_limit_retry ends with the retries used up: the
\* rate_limit_error envelope is built, and forward_request returns it as is.
FwExhausted ==
    /\ fw_pc = "retry"
    /\ ~ShouldAttempt(rt_retries)
    /\ rt_result' = [kind |-> "envelope", status |-> 429, error |-> "rate_limit_error"]
    /\ fw_response' = RateLimitEnvelope(fw_req.request_id, FwPath(fw_req))
    /\ fw_pc' = "done"
    /\ UNCHANGED <<now, rl_vars, sf_vars, ob_vars, tl_vars, st_vars, mock_mode, proxy_class, api_key, fw_req,
                   fw_verdict, fw_dispatches, rt_retries, rt_waits, fw_count,
                   client_jar, streaming_jar>>

\* forward_request processes the response it got (cookies, headers, body) and
\* returns it with the upstream's status; if the processing raises, the
\* "except Exception" of the call turns to the HTTP/1.1 fallback.
FwProcess ==
    /\ fw_pc = "process"
    /\ \E raises \in BOOLEAN, extracted \in BOOLEAN :
        /\ ~raises => extracted
        /\ IF raises
           THEN /\ fw_pc' = "fallback"
                /\ UNCHANGED fw_response
           ELSE /\ fw_pc' = "done"
                /\ fw_response' = Upstream(rt_result.status)
        /\ LearnCookie(fw_dispatches[Len(fw_dispatches)].set_cookie /\ extracted)
    /\ UNCHANGED <<now, rl_vars, sf_vars, ob_vars, tl_vars, st_vars, mock_mode, proxy_class, api_key, fw_req,
                   fw_verdict, fw_dispatches, rt_retries, rt_waits, rt_result,
                   fw_count>>

\* The fallback: one request on a new client with http2=False; its response is
\* processed and returned, and anything raised becomes proxy_error, 500.
FwFallback ==
    /\ fw_pc = "fallback"
    /\ \E o \in UpstreamOutcomes, raises \in BOOLEAN, set_cookie \in BOOLEAN,
          extracted \in BOOLEAN :
        /\ SetsCookie(o, set_cookie)
        /\ extracted = (set_cookie \/ ~raises)
        /\ fw_dispatches' = Append(fw_dispatches,
               Dispatch("fallback", FALSE, o, o.kind = "response", set_cookie, {}))
        /\ LearnCookie(set_cookie /\ extracted)
        /\ fw_response' = IF o.kind = "exception" \/ raises
                          THEN Envelope(500, "proxy_error")
                          ELSE Upstream(o.status)
    /\ fw_pc' = "done"
    /\ UNCHANGED <<now, rl_vars, sf_vars, ob_vars, tl_vars, st_vars, mock_mode, proxy_class, api_key, fw_req,
                   fw_verdict, rt_retries, rt_waits, rt_result, fw_count>>

\* forward_request has returned: the response goes to the caller and the
\* locals of the call are gone; the limiters and the cookie jars stay.
FwReturn ==
    /\ fw_pc = "done"
    /\ fw_pc' = "idle"
    /\ fw_req' = NoRequest
    /\ fw_verdict' = 0
    /\ fw_dispatches' = <<>>
    /\ rt_retries' = 0
    /\ rt_waits' = <<>>
    /\ rt_result' = NoOutcome
    /\ fw_response' = NoResponse
    /\ UNCHANGED <<now, rl_vars, sf_vars, ob_vars, tl_vars, st_vars, mock_mode, proxy_class, api_key, fw_count,
                   client_jar, streaming_jar>>

(***************************************************************************)
(* app/logging.py: redact_api_key.                                         *)
(* A Python value is a record: its type, and for a str its characters, one *)
(* one-character string each. re.sub is computed character by character.   *)
(***************************************************************************)
PyStr(chars) == [type |-> "str", chars |-> chars]
None == [type |-> "NoneType", chars |-> <<>>]
Number == [type |-> "int", chars |-> <<>>]

\* [a-zA-Z0-9], [a-zA-Z0-9-], [a-zA-Z0-9_-], \s, ["\'] of the patterns
Alnum ==
    {"a", "b", "c", "d", "e", "f", "g", "h", "i", "j", "k", "l", "m", "n", "o", "p",
     "q", "r", "s", "t", "u", "v", "w", "x", "y", "z",
     "A", "B", "C", "D", "E", "F", "G", "H", "I", "J", "K", "L", "M", "N", "O", "P",
     "Q", "R", "S", "T", "U", "V", "W", "X", "Y", "Z",
     "0", "1", "2", "3", "4", "5", "6", "7", "8", "9"}
AlnumDash == Alnum \cup {"-"}
TokenChars == Alnum \cup {"_", "-"}
Whitespace == {" ", "\t", "\n", "\r"}
Quotes == {"\"", "'"}
\* the replacement r'\1...' after the group
Dots == <<".", ".", ".">>
\* {5}: the characters of the secret a pattern keeps
KeptChars == 5

\* the first position at or after i whose character is not in class
RECURSIVE SkipWhile(_, _, _)
SkipWhile(text, i, class) ==
    IF i <= Len(text) /\ text[i] \in class
    THEN SkipWhile(text, i + 1, class) ELSE i

\* a literal of a pattern at position i: the position after it, 0 if absent
Literal(text, i, lit) ==
    IF /\ i > 0
       /\ i + Len(lit) - 1 <= Len(text)
       /\ \A k \in 1..Len(lit) : text[i + k - 1] = lit[k]
    THEN i + Len(lit) ELSE 0
\* one character of a class at position i: the position after it, 0 if absent
OneOf(text, i, class) ==
    IF i > 0 /\ i <= Len(text) /\ text[i] \in class THEN i + 1 ELSE 0
\* \s* and \s+ at position i
SpacesStar(text, i) == IF i = 0 THEN 0 ELSE SkipWhile(text, i, Whitespace)
SpacesPlus(text, i) ==
    IF OneOf(text, i, Whitespace) = 0 THEN 0 ELSE SkipWhile(text, i, Whitespace)

\* The six patterns of redact_api_key, in the order they are applied: what
\* precedes the kept characters inside the group, the class of the kept
\* characters, the class of the characters replaced, and the least number of
\* them ("+": one).
RedactPatterns ==
    << [head |-> "sk-",      keep |-> Alnum,      tail |-> Alnum,      least |-> 1],
       [head |-> "sk-ant-",  keep |-> Alnum,      tail |-> AlnumDash,  least |-> 1],
       [head |-> "Bearer",   keep |-> TokenChars, tail |-> TokenChars, least |-> 1],
       [head |-> "api_key",  keep |-> Alnum,      tail |-> TokenChars, least |-> 1],
       [head |-> "api-key",  keep |-> TokenChars, tail |-> TokenChars, least |-> 1],
       [head |-> "sk-proj-", keep |-> Alnum,      tail |-> Alnum,      least |-> 1] >>

\* the part of a pattern's group before the kept characters, matched at
\* position i: the position after it, 0 when it does not match there
GroupHead(pattern, text, i) ==
    CASE pattern.head = "sk-" -> Literal(text, i, <<"s", "k", "-">>)
      [] pattern.head = "sk-ant-" ->
            Literal(text, i, <<"s", "k", "-", "a", "n", "t", "-">>)
      [] pattern.head = "sk-proj-" ->
            Literal(text, i, <<"s", "k", "-", "p", "r", "o", "j", "-">>)
      [] pattern.head = "Bearer" ->
            \* Bearer\s+
            SpacesPlus(text, Literal(text, i, <<"B", "e", "a", "r", "e", "r">>))
      [] pattern.head = "api_key" ->
            \* api_key\":\s*\"sk-
            Literal(text,
                SpacesStar(text,
                    Literal(text, i, <<"a", "p", "i", "_", "k", "e", "y", "\"", ":">>)),
                <<"\"", "s", "k", "-">>)
      [] pattern.head = "api-key" ->
            \* api[_-]?key["\']\s*:\s*["\'"]
            LET api == Literal(text, i, <<"a", "p", "i">>)
                sep == IF OneOf(text, api, {"_", "-"}) # 0
                       THEN OneOf(text, api, {"_", "-"}) ELSE api
                key == Literal(text, sep, <<"k", "e", "y">>)
                colon == Literal(text, SpacesStar(text, OneOf(text, key, Quotes)),
                                 <<":">>)
            IN  OneOf(text, SpacesStar(text, colon), Quotes)

\* a match of the pattern at position i: [from, kept, to) with `kept` the
\* position after the group, or to = 0 when there is none. The quantifiers
\* are greedy and never give back: no class overlaps what follows it.
Match(pattern, text, i) ==
    LET h == GroupHead(pattern, text, i)
        kept == h + KeptChars
    IN  IF /\ h # 0
           /\ kept - 1 <= Len(text)
           /\ \A k \in h..(kept - 1) : text[k] \in pattern.keep
           /\ SkipWhile(text, kept, pattern.tail) - kept >= pattern.least
        THEN [kept |-> kept, to |-> SkipWhile(text, kept, pattern.tail)]
        ELSE [kept |-> 0, to |-> 0]

\* re.sub(pattern, r'\1...', text) from position i on: the leftmost matches,
\* each replaced by its group and three dots
RECURSIVE Sub(_, _, _)
Sub(pattern, text, i) ==
    IF i > Len(text) THEN <<>>
    ELSE LET m == Match(pattern, text, i)
         IN  IF m.to = 0
             THEN <<text[i]>> \o Sub(pattern, text, i + 1)
             ELSE SubSeq(text, i, m.kept - 1) \o Dots \o Sub(pattern, text, m.to)

\* the patterns applied one after the other, from the n-th on
RECURSIVE SubAll(_, _, _)
SubAll(patterns, n, text) ==
    IF n > Len(patterns) THEN text
    ELSE SubAll(patterns, n + 1, Sub(patterns[n], text, 1))

\* A plausible slip: "*" for "+" after the kept characters.
redact_api_key_star(text) ==
    IF text.type # "str" \/ text.chars = <<>> THEN text
    ELSE PyStr(SubAll([n \in 1..Len(RedactPatterns) |->
                          [RedactPatterns[n] EXCEPT !.least = 0]], 1, text.chars))
\* redact_api_key
redact_api_key(text) ==
    IF text.type # "str" \/ text.chars = <<>> THEN text
    ELSE PyStr(SubAll(RedactPatterns, 1, text.chars))

\* whether some pattern of redact_api_key matches somewhere in the text
SecretShaped(text) ==
    /\ text.type = "str"
    /\ \E n \in 1..Len(RedactPatterns), i \in 1..Len(text.chars) :
          Match(RedactPatterns[n], text.chars, i).to # 0

\* The texts redact_api_key is given in the model: up to MaxPieces pieces put
\* together, the pieces being what the patterns are made of.
Pieces ==
    { <<"s", "k", "-">>,
      <<"s", "k", "-", "a", "n", "t", "-">>,
      <<"s", "k", "-", "p", "r", "o", "j", "-">>,
      <<"a", "b", "c", "d", "e">>,
      <<"a", "b", "c", "d", "e", "X", "9">>,
      <<"-", "z">>,
      <<" ">>,
      <<"B", "e", "a", "r", "e", "r", " ">>,
      <<"a", "p", "i", "_", "k", "e", "y", "\"", ":", " ", "\"">>,
      <<".", ".", ".">> }
RECURSIVE Texts(_)
Texts(n) ==
    IF n = 0 THEN { <<>> }
    ELSE Texts(n - 1) \cup {t \o p : t \in Texts(n - 1), p \in Pieces}
RedactInputs == {PyStr(t) : t \in Texts(MaxPieces)} \cup {None, Number}

RdInit ==
    /\ rd_pc = "input"
    /\ rd_text = None
    /\ rd_once = None
    /\ rd_twice = None

\* a caller passes a value to redact_api_key
RedactOnce ==
    /\ rd_pc = "input"
    /\ \E text \in RedactInputs :
        /\ rd_text' = text
        /\ rd_once' = redact_api_key(text)
    /\ rd_pc' = "once"
    /\ UNCHANGED <<now, rl_vars, sf_vars, tl_vars, st_vars, fw_vars, pf_vars, lg_vars, rd_twice>>

\* the result is passed to redact_api_key again
RedactTwice ==
    /\ rd_pc = "once"
    /\ rd_twice' = redact_api_key(rd_once)
    /\ rd_pc' = "twice"
    /\ UNCHANGED <<now, rl_vars, sf_vars, tl_vars, st_vars, fw_vars, pf_vars, lg_vars, rd_text,
                   rd_once>>

(***************************************************************************)
(* app/rate_limiter.py: TokenRateLimiter._calculate_wait_time on its own,  *)
(* over the windows and requests of the model.                             *)
(***************************************************************************)
\* the samples of the windows: when they were admitted and how many tokens
SampleTimes == {0, 300, 595}
SampleTokens == {30, 50, 60}
\* token_usage is appended to in the order of time.time(): ordered by time
RECURSIVE Windows(_)
Windows(n) ==
    IF n = 0 THEN { <<>> }
    ELSE Windows(n - 1) \cup
         {Append(w, <<t, k>>) : w \in {x \in Windows(n - 1) : Len(x) = n - 1},
                                 t \in SampleTimes, k \in SampleTokens}
OrderedByTime(w) == \A i \in 1..(Len(w) - 1) : w[i][1] <= w[i + 1][1]
WaitInputs ==
    [token_usage : {w \in Windows(MaxEntries) : OrderedByTime(w)},
     current_time : {595, 605, 890},
     requested_tokens : {20, 50, 200}]
NoWaitInput == [token_usage |-> <<>>, current_time |-> 0, requested_tokens |-> 0]

WtInit ==
    /\ wt_pc = "input"
    /\ wt_in = NoWaitInput
    /\ wt_out = 0

\* check_token_limit asks for the wait of a request.
CalculateWait ==
    /\ wt_pc = "input"
    /\ \E in \in WaitInputs :
        /\ \A i \in 1..Len(in.token_usage) : in.token_usage[i][1] <= in.current_time
        /\ wt_in' = in
        /\ wt_out' = _calculate_wait_time(in.token_usage, in.current_time,
                                          in.requested_tokens)
    /\ wt_pc' = "done"
    /\ UNCHANGED <<now, rl_vars, sf_vars, tl_vars, st_vars, fw_vars, rd_vars, lg_vars, gw_vars, bk_vars, sn_vars>>

(***************************************************************************)
(* app/main.py: the proxies of the gateway side by side. Each proxy is     *)
(* constructed once at import and BaseAPIProxy.__init__ gives each its own *)
(* SecurityFilter, hence its own RateLimiter.                              *)
(***************************************************************************)
\* openai_proxy = OpenAIProxy(settings); anthropic_proxy = AnthropicProxy(settings)
Routes == {"openai", "anthropic"}
\* the path a route's requests carry in the model
RoutePath(route) ==
    IF route = "openai" THEN <<"chat", "/", "completions">> ELSE <<"messages">>
\* the steps of the clock between requests: 30 s
GatewaySteps == {300}

GwInit ==
    /\ gw_requests = [r \in Routes |-> <<>>]
    /\ gw_admitted = <<>>

\* A request arrives on a route: the route's proxy calls
\* self.security_filter.validate_request(body, path).
GatewayRequest ==
    /\ Len(gw_admitted) < MaxGatewayAdmitted
    /\ \E route \in Routes :
        LET v == validate_request(filters_enabled, EmptyBody, RoutePath(route),
                                  gw_requests[route], now) IN
        /\ gw_requests' = [gw_requests EXCEPT ![route] = v.requests]
        /\ gw_admitted' = IF v.verdict.status = 200
                          THEN Append(gw_admitted, <<now, route>>)
                          ELSE gw_admitted
    /\ UNCHANGED <<now, rl_vars, sf_vars, tl_vars, st_vars, fw_vars, rd_vars, lg_vars, wt_vars, bk_vars, sn_vars>>

\* Time passes between requests.
GatewayTick ==
    /\ \E d \in GatewaySteps :
        /\ now + d <= MaxNow
        /\ now' = now + d
    /\ UNCHANGED <<rl_vars, sf_vars, tl_vars, st_vars, fw_vars, ob_vars>>

(***************************************************************************)
(* app/proxy.py: the delay _handle_rate_limit_retry computes after a 429,  *)
(* on its own. Delays are in milliseconds; a header name is a sequence of  *)
(* pieces and a header value a string with the result float() gives it.    *)
(***************************************************************************)
\* self.base_retry_delay = 1.0, in milliseconds
base_retry_delay == 1000
\* "delay = reset_time + 0.5", in milliseconds
reset_buffer == 500
\* the names of the response headers of the model
HeaderNames ==
    { <<"x-ratelimit-reset", "-requests">>, <<"X-RateLimit-Reset", "-Tokens">>,
      <<"retry-after">>, <<"x-ratelimit-remaining", "-requests">> }
\* header_name.lower()
LowerPiece(w) ==
    CASE w = "X-RateLimit-Reset" -> "x-ratelimit-reset"
      [] w = "-Tokens" -> "-tokens"
      [] OTHER -> w
LowerName(name) == [i \in 1..Len(name) |-> LowerPiece(name[i])]
\* the values of the response headers of the model
HeaderValues == {"1s", "0", "-1", "5", "0.2"}
\* float(value): the number in milliseconds, or ValueError
float(value) ==
    CASE value = "0" -> [raised |-> FALSE, ms |-> 0]
      [] value = "-1" -> [raised |-> FALSE, ms |-> 0 - 1000]
      [] value = "5" -> [raised |-> FALSE, ms |-> 5000]
      [] value = "0.2" -> [raised |-> FALSE, ms |-> 200]
      [] OTHER -> [raised |-> TRUE, ms |-> 0]
\* response.headers: one value per name, in the order received
RECURSIVE HeaderLists(_)
HeaderLists(n) ==
    IF n = 0 THEN { <<>> }
    ELSE HeaderLists(n - 1) \cup
         {Append(hs, [name |-> nm, value |-> v]) :
              hs \in {x \in HeaderLists(n - 1) : Len(x) = n - 1},
              nm \in HeaderNames, v \in HeaderValues}
DistinctNames(hs) ==
    \A i, j \in 1..Len(hs) : i # j => LowerName(hs[i].name) # LowerName(hs[j].name)
\* random.random(), in thousandths
RandomSamples == {0, 500, 999}
BackoffInputs ==
    [headers : {hs \in HeaderLists(MaxHeaders) : DistinctNames(hs)},
     retries : 0..(max_retries - 1),
     random : RandomSamples]
NoBackoffInput == [headers |-> <<>>, retries |-> 0, random |-> 0]

\* reset_time = None
NoResetTime == [found |-> FALSE, ms |-> 0]
\* "for header_name in response.headers": the first header whose lowered name
\* contains x-ratelimit-reset and whose value float() accepts ends the loop
RECURSIVE reset_time(_)
reset_time(headers) ==
    IF headers = <<>> THEN NoResetTime
    ELSE IF /\ Contains(<<"x-ratelimit-reset">>, LowerName(Head(headers).name))
            /\ ~float(Head(headers).value).raised
         THEN [found |-> TRUE, ms |-> float(Head(headers).value).ms]
         ELSE reset_time(Tail(headers))
Pow2(n) == 2 ^ n
\* "if reset_time and reset_time > 0: delay = reset_time + 0.5", else
\* "delay = self.base_retry_delay * (2 ** retries) * (0.5 + random.random())"
backoff_delay(headers, retries, random) ==
    LET found == reset_time(headers) IN
    IF found.found /\ found.ms # 0 /\ found.ms > 0
    THEN found.ms + reset_buffer
    ELSE (base_retry_delay * Pow2(retries) * (500 + random)) \div 1000

BkInit ==
    /\ bk_pc = "input"
    /\ bk_in = NoBackoffInput
    /\ bk_delay = 0

\* An attempt of _handle_rate_limit_retry got a 429: the delay it sleeps.
CalculateBackoff ==
    /\ bk_pc = "input"
    /\ \E in \in BackoffInputs :
        /\ bk_in' = in
        /\ bk_delay' = backoff_delay(in.headers, in.retries, in.random)
    /\ bk_pc' = "done"
    /\ UNCHANGED <<now, rl_vars, sf_vars, tl_vars, st_vars, fw_vars, rd_vars, lg_vars,
                   wt_vars, gw_vars, sn_vars>>

(***************************************************************************)
(* Logging: app/logging.py (setup_logging, RequestResponseLogger),         *)
(* app/main.py (start-up, LoggingMiddleware) and the log calls of          *)
(* OpenAIProxy.forward_request, for a POST with a JSON body that the       *)
(* upstream answers. Two runs are made side by side: they differ only in   *)
(* the secret part of the credentials. A record keeps the logger, the      *)
(* level, the source line of the call, the kinds of request and response   *)
(* data in the message, and the text of the credential-bearing values.     *)
(***************************************************************************)
Runs == {1, 2}
\* the characters of a key after the ones redaction keeps
SecretPart(run) == IF run = 1 THEN <<"X", "9", "a">> ELSE <<"Y", "7", "b">>
\* settings.openai_api_key of the run, and the caller's key
ConfiguredKey(run) == <<"s", "k", "-", "a", "b", "c", "d", "e">> \o SecretPart(run)
CallerKey(run) == <<"s", "k", "-", "c", "a", "l", "l", "r">> \o SecretPart(run)
BearerOf(key) == <<"B", "e", "a", "r", "e", "r", " ">> \o key
\* "[REDACTED]"
REDACTED == <<"[", "R", "E", "D", "A", "C", "T", "E", "D", "]">>

\* logging's numeric levels
LevelNo(level) ==
    CASE level = "DEBUG" -> 10 [] level = "INFO" -> 20
      [] level = "WARNING" -> 30 [] level = "ERROR" -> 40
\* Logger.isEnabledFor: "openai-proxy" has the level setup_logging gave it;
\* "api-firewall" has none and inherits the root logger's
isEnabledFor(env, logger, level) ==
    LevelNo(level) >= LevelNo(IF logger = "openai-proxy"
                              THEN env.LOG_LEVEL ELSE env.root_level)
\* debug_mode = os.environ.get("LOG_LEVEL", "").upper() == "DEBUG"
debug_mode(env) == env.LOG_LEVEL = "DEBUG"

Record(logger, level, line, shows, text) ==
    [logger |-> logger, level |-> level, line |-> line, shows |-> shows, text |-> text]
\* the calls of a step that pass their logger's level, appended to the sink
Emit(env, sink, calls) ==
    sink \o SelectSeq(calls, LAMBDA c : isEnabledFor(env, c.logger, c.level))
Only(cond, calls) == IF cond THEN calls ELSE <<>>

\* the Authorization header of the outbound request of the run (proxy.py:379):
\* the caller's header is looked up under "Authorization", which the
\* lower-case names of request.headers never match
OutboundAuthorization(env, run) ==
    BearerOf(IF env.keyed THEN ConfiguredKey(run) ELSE <<>>)
\* RequestResponseLogger._sanitize_headers on the outbound headers
sanitize_headers(headers_text) == REDACTED
\* RequestResponseLogger._sanitize_body: a top-level api_key field is replaced
sanitize_body(req, run) == IF req.body_key THEN REDACTED ELSE <<>>
\* json.dumps(body) of the request as received
BodyText(req, run) ==
    IF req.body_key
    THEN <<"a", "p", "i", "_", "k", "e", "y", "\"", ":", " ", "\"">> \o CallerKey(run)
    ELSE <<>>

\* main.py, module level: the settings are logged when the application loads
StartupCalls(env, run) ==
    << Record("openai-proxy", "INFO", 28, {"config"},
              IF env.keyed THEN ConfiguredKey(run) ELSE <<>>),
       Record("openai-proxy", "INFO", 32, {"config"}, <<>>),
       Record("openai-proxy", "INFO", 35, {"config"}, <<>>) >>
\* LoggingMiddleware.dispatch before call_next, and the route's own line
ReceiveCalls(env, req, run) ==
    << Record("openai-proxy", "INFO", 53, {"request_id", "method", "path"}, <<>>) >>
    \o Only(debug_mode(env),
         << Record("openai-proxy", "DEBUG", 62, {"request_id", "header_values"},
                   IF req.sends_auth THEN BearerOf(CallerKey(run)) ELSE <<>>) >>)
    \o << Record("openai-proxy", "INFO", 174, {"request_id", "path"}, <<>>) >>
\* OpenAIProxy.forward_request up to the dispatch of the upstream request
ForwardCalls(env, req, run) ==
    << Record("api-firewall", "INFO", 348, {"request_id", "method", "path"}, <<>>) >>
    \o Only(debug_mode(env),
         << Record("api-firewall", "DEBUG", 358, {"header_values"}, <<>>),
            Record("api-firewall", "DEBUG", 359, {"config"},
                   OutboundAuthorization(env, run)) >>)
    \o << Record("api-firewall", "INFO", 422, {}, <<>>),
          Record("api-firewall", "INFO", 429, {"header_values"},
                 OutboundAuthorization(env, run)) >>
    \o Only(debug_mode(env),
         << Record("api-firewall", "DEBUG", 481, {"request_id", "body"},
                   BodyText(req, run)) >>)
    \* RequestResponseLogger.log_request
    \o << Record("api-firewall", "INFO", 93, {"request_id", "method", "path"}, <<>>) >>
    \o Only(debug_mode(env),
         << Record("api-firewall", "DEBUG", 97,
                   {"request_id", "method", "path", "header_values", "body"},
                   redact_api_key(PyStr(
                       sanitize_headers(OutboundAuthorization(env, run))
                           \o sanitize_body(req, run))).chars) >>)
\* the response processed by forward_request, RequestResponseLogger.log_response
\* and LoggingMiddleware.dispatch after call_next
ResponseCalls(env, req, run) ==
    Only(debug_mode(env),
         << Record("api-firewall", "DEBUG", 565, {"status", "header_values"}, <<>>),
            Record("api-firewall", "DEBUG", 570, {"request_id", "body"}, <<>>),
            Record("api-firewall", "DEBUG", 596, {"body"}, <<>>) >>)
    \o << Record("api-firewall", "INFO", 141, {"request_id", "status"}, <<>>) >>
    \o Only(debug_mode(env),
         << Record("api-firewall", "DEBUG", 145,
                   {"request_id", "status", "header_values", "body"}, <<>>) >>)
    \o << Record("openai-proxy", "INFO", 77, {"request_id", "status"}, <<>>) >>
    \o Only(debug_mode(env),
         << Record("openai-proxy", "DEBUG", 81, {"request_id", "header_values"}, <<>>) >>)

\* the logging configurations of the model: LOG_LEVEL of the environment, the
\* level of the root logger (WARNING unless the embedding program configures
\* logging), and whether OPENAI_API_KEY is set
LogEnvironments ==
    [LOG_LEVEL : {"INFO", "DEBUG"}, root_level : {"WARNING", "INFO", "DEBUG"},
     keyed : BOOLEAN]
LogRequests == [sends_auth : BOOLEAN, body_key : BOOLEAN]
NoLogRequest == [sends_auth |-> FALSE, body_key |-> FALSE]

LgInit ==
    /\ lg_pc = "new"
    /\ lg_env = [LOG_LEVEL |-> "INFO", root_level |-> "WARNING", keyed |-> FALSE]
    /\ lg_req = NoLogRequest
    /\ lg_sink = [run \in Runs |-> <<>>]
    /\ lg_count = 0

\* the application is loaded: setup_logging, Settings, the start-up lines
LogStartup ==
    /\ lg_pc = "new"
    /\ \E env \in LogEnvironments :
        /\ lg_env' = env
        /\ lg_sink' = [run \in Runs |-> Emit(env, lg_sink[run], StartupCalls(env, run))]
    /\ lg_pc' = "idle"
    /\ UNCHANGED <<now, rl_vars, sf_vars, tl_vars, st_vars, fw_vars, pf_vars, rd_vars, lg_req,
                   lg_count>>

\* a request arrives at LoggingMiddleware and is routed
LogReceive ==
    /\ lg_pc = "idle"
    /\ lg_count < MaxLogged
    /\ \E req \in LogRequests :
        /\ lg_req' = req
        /\ lg_sink' = [run \in Runs |->
                          Emit(lg_env, lg_sink[run], ReceiveCalls(lg_env, req, run))]
    /\ lg_pc' = "received"
    /\ UNCHANGED <<now, rl_vars, sf_vars, tl_vars, st_vars, fw_vars, pf_vars, rd_vars, lg_env,
                   lg_count>>

\* forward_request builds and logs the outbound request
LogForward ==
    /\ lg_pc = "received"
    /\ lg_sink' = [run \in Runs |->
                      Emit(lg_env, lg_sink[run], ForwardCalls(lg_env, lg_req, run))]
    /\ lg_pc' = "forwarded"
    /\ UNCHANGED <<now, rl_vars, sf_vars, tl_vars, st_vars, fw_vars, pf_vars, rd_vars, lg_env,
                   lg_req, lg_count>>

\* the upstream's response is logged and returned through the middleware
LogResponse ==
    /\ lg_pc = "forwarded"
    /\ lg_sink' = [run \in Runs |->
                      Emit(lg_env, lg_sink[run], ResponseCalls(lg_env, lg_req, run))]
    /\ lg_pc' = "answered"
    /\ lg_count' = lg_count + 1
    /\ UNCHANGED <<now, rl_vars, sf_vars, tl_vars, st_vars, fw_vars, pf_vars, rd_vars, lg_env,
                   lg_req>>

\* the next request can come
LogNext ==
    /\ lg_pc = "answered"
    /\ lg_pc' = "idle"
    /\ lg_req' = NoLogRequest
    /\ UNCHANGED <<now, rl_vars, sf_vars, tl_vars, st_vars, fw_vars, pf_vars, rd_vars, lg_env,
                   lg_sink, lg_count>>

(***************************************************************************)
(* app/logging.py: RequestResponseLogger.log_request and log_response over *)
(* Python objects with identity. The heap is the sequence of the dicts and *)
(* lists alive; an argument is the position of an object in it. An item of *)
(* an object is a string, a bool or a reference to another object; a list  *)
(* keeps its items under their indices.                                    *)
(***************************************************************************)
StrValue(chars) == [kind |-> "str", chars |-> chars, at |-> 0]
BoolValue(b) == [kind |-> "bool", chars |-> <<>>, at |-> IF b THEN 1 ELSE 0]
Reference(id) == [kind |-> "ref", chars |-> <<>>, at |-> id]
NoItems == [k \in {} |-> StrValue(<<>>)]
PyDict(items) == [type |-> "dict", items |-> items]
PyList(items) == [type |-> "list", items |-> items]
\* the index of the i-th item of a list
Index(i) == CASE i = 1 -> "0" [] i = 2 -> "1" [] i = 3 -> "2" [] OTHER -> "3"

\* _sanitize_headers: sensitive_headers
sensitive_headers ==
    {"authorization", "x-api-key", "api-key", "openai-api-key", "anthropic-api-key",
     "x-openai-api-key", "x-anthropic-api-key"}
\* _sanitize_body: sensitive_fields
sensitive_fields ==
    {"api_key", "apiKey", "key", "token", "secret", "password", "access_token",
     "refresh_token", "auth_token", "jwt", "openai_api_key", "anthropic_api_key",
     "bearer_token", "api-key", "authorization"}
\* key.lower(), for the header names of the model
lower(name) ==
    CASE name = "Authorization" -> "authorization"
      [] name = "X-Api-Key" -> "x-api-key"
      [] name = "Content-Type" -> "content-type"
      [] OTHER -> name
\* the characters of a header name, as json.dumps writes them
NameChars(name) ==
    CASE name = "Authorization" ->
             <<"A", "u", "t", "h", "o", "r", "i", "z", "a", "t", "i", "o", "n">>
      [] name = "authorization" ->
             <<"a", "u", "t", "h", "o", "r", "i", "z", "a", "t", "i", "o", "n">>
      [] name = "X-Api-Key" -> <<"X", "-", "A", "p", "i", "-", "K", "e", "y">>
      [] name = "x-api-key" -> <<"x", "-", "a", "p", "i", "-", "k", "e", "y">>
      [] OTHER -> <<"C", "o", "n", "t", "e", "n", "t", "-", "T", "y", "p", "e">>
\* "[CONTENT REDACTED]" and "[SYSTEM PROMPT REDACTED]"
CONTENT_REDACTED ==
    <<"[", "C", "O", "N", "T", "E", "N", "T", " ">> \o Tail(REDACTED)
SYSTEM_PROMPT_REDACTED ==
    <<"[", "S", "Y", "S", "T", "E", "M", " ", "P", "R", "O", "M", "P", "T", " ">>
        \o Tail(REDACTED)

\* the environment of the process: TESTING, LOG_TOKENS, LOG_LEVEL = DEBUG
SanitizeEnvs == [TESTING : BOOLEAN, LOG_TOKENS : BOOLEAN, DEBUG : BOOLEAN]

\* the values of the model
ApplicationJson == StrValue(<<"j", "s", "o", "n">>)
CallerSecret == StrValue(CallerKey(1))
CallerBearer == StrValue(BearerOf(CallerKey(1)))
\* the header maps handed to log_request: the outbound headers of
\* OpenAIProxy and of AnthropicProxy, a map with names in other cases, and an
\* empty one
RequestHeaderMaps ==
    { Field("Authorization", CallerBearer) @@ Field("Content-Type", ApplicationJson),
      Field("x-api-key", CallerSecret) @@ Field("Content-Type", ApplicationJson),
      Field("X-Api-Key", CallerSecret) @@ Field("authorization", CallerBearer),
      NoItems }
\* the shapes of the parsed bodies: which fields they have, how many messages
BodyShapes ==
    [api_key : BOOLEAN, system : BOOLEAN, metadata : BOOLEAN, headers : BOOLEAN,
     messages : 0..MaxMessages]
Count(b) == IF b THEN 1 ELSE 0
\* the heap after forward_request built the headers (object 1) and parsed the
\* body (object 2 and what it holds)
RequestHeap(hs, b) ==
    LET meta_id == 3
        hdr_id == 3 + Count(b.metadata)
        list_id == hdr_id + Count(b.headers)
        body_items ==
            Field("model", StrValue(<<"g", "p", "t">>))
            @@ (IF b.api_key THEN Field("api_key", CallerSecret) ELSE NoItems)
            @@ (IF b.system THEN Field("system", StrValue(<<"b", "e">>)) ELSE NoItems)
            @@ (IF b.metadata THEN Field("metadata", Reference(meta_id)) ELSE NoItems)
            @@ (IF b.headers THEN Field("headers", Reference(hdr_id)) ELSE NoItems)
            @@ (IF b.messages > 0 THEN Field("messages", Reference(list_id))
                ELSE NoItems)
    IN  << PyDict(hs), PyDict(body_items) >>
        \o (IF b.metadata
            THEN << PyDict(Field("token", CallerSecret)
                           @@ Field("user", StrValue(<<"u">>))) >>
            ELSE <<>>)
        \o (IF b.headers
            THEN << PyDict(Field("Authorization", CallerBearer)) >>
            ELSE <<>>)
        \o (IF b.messages > 0
            THEN << PyList([k \in {Index(i) : i \in 1..b.messages} |->
                       Reference(list_id
                           + (CHOOSE i \in 1..b.messages : Index(i) = k))]) >>
                 \o [i \in 1..b.messages |->
                       PyDict(Field("role", StrValue(<<"u">>))
                              @@ Field("content", StrValue(<<"h", "i">>)))]
            ELSE <<>>)
RequestHeaps ==
    {RequestHeap(hs, b) : hs \in RequestHeaderMaps, b \in BodyShapes}
    \cup { << PyDict(hs), PyDict(NoItems) >> : hs \in RequestHeaderMaps }
\* the response headers and bodies handed to log_response
ResponseHeaderMaps ==
    { Field("Content-Type", ApplicationJson),
      Field("Content-Type", ApplicationJson) @@ Field("X-Api-Key", CallerSecret) }
ResponseBodies ==
    { Field("id", StrValue(<<"r">>)) @@ Field("token", CallerSecret),
      Field("streaming", BoolValue(TRUE)),
      Field("binary", BoolValue(TRUE)) @@ Field("length", StrValue(<<"9">>)) }

\* the objects an object holds, directly or not, itself included
RECURSIVE Reachable(_, _)
Reachable(heap, id) ==
    {id} \cup UNION {Reachable(heap, heap[id].items[k].at) :
                        k \in {x \in DOMAIN heap[id].items :
                                  heap[id].items[x].kind = "ref"}}
\* "if not headers", "if not body": an empty dict is falsy
Truthy(heap, id) == DOMAIN heap[id].items # {}
IsDict(heap, v) == v.kind = "ref" /\ heap[v.at].type = "dict"
IsList(heap, v) == v.kind = "ref" /\ heap[v.at].type = "list"

\* A plausible slip: copy.copy, which shares what the object holds.
copy_shallow(heap, id) ==
    [heap |-> Append(heap, heap[id]), ref |-> Len(heap) + 1]
\* copy.deepcopy: a new object for the object and for each one it holds, the
\* references of the copies pointing at the copies
deepcopy(heap, id) ==
    LET old == Reachable(heap, id)
        n == Len(heap)
        rank(i) == Cardinality({j \in old : j <= i})
        moved(v) == IF v.kind = "ref" THEN Reference(n + rank(v.at)) ELSE v
        copied(i) == [type |-> heap[i].type,
                      items |-> [k \in DOMAIN heap[i].items |->
                                    moved(heap[i].items[k])]]
    IN  [heap |-> [j \in 1..(n + Cardinality(old)) |->
                     IF j <= n THEN heap[j]
                     ELSE copied(CHOOSE i \in old : rank(i) = j - n)],
         ref |-> n + rank(id)]

\* an object with the items of the given keys replaced by a string
Overwritten(object, keys, chars) ==
    [type |-> object.type,
     items |-> [k \in DOMAIN object.items |->
                   IF k \in keys THEN StrValue(chars) ELSE object.items[k]]]
\* an object without the items of the given keys
Without(object, keys) ==
    [type |-> object.type,
     items |-> [k \in DOMAIN object.items \ keys |-> object.items[k]]]

\* RequestResponseLogger._sanitize_headers: the heap afterwards and the
\* object returned. Every key whose lower-case form is a sensitive header is
\* set to "[REDACTED]" in the copy, or deleted from it when TESTING is true.
_sanitize_headers(heap, id, env) ==
    IF ~Truthy(heap, id) \/ heap[id].type # "dict"
    THEN [heap |-> heap, ref |-> id]
    ELSE LET c == deepcopy(heap, id)
             hit == {k \in DOMAIN c.heap[c.ref].items : lower(k) \in sensitive_headers}
         IN  [heap |-> [c.heap EXCEPT ![c.ref] =
                           IF env.TESTING THEN Without(@, hit)
                           ELSE Overwritten(@, hit, REDACTED)],
              ref |-> c.ref]

\* _sanitize_body, "for field in sensitive_fields": the fields of the copy and
\* of the dicts it holds
RedactFields(heap, root) ==
    LET top == [heap EXCEPT ![root] = Overwritten(@, sensitive_fields, REDACTED)]
        nested == {top[root].items[k].at :
                      k \in {x \in DOMAIN top[root].items :
                                IsDict(top, top[root].items[x])}}
    IN  [j \in DOMAIN top |->
            IF j \in nested THEN Overwritten(top[j], sensitive_fields, REDACTED)
            ELSE top[j]]
\* _sanitize_body: 'sanitized["headers"] = self._sanitize_headers(...)'
RedactNestedHeaders(heap, root, env) ==
    IF "headers" \in DOMAIN heap[root].items /\ IsDict(heap, heap[root].items["headers"])
    THEN LET r == _sanitize_headers(heap, heap[root].items["headers"].at, env)
         IN  [r.heap EXCEPT ![root].items["headers"] = Reference(r.ref)]
    ELSE heap
\* _sanitize_body: the content of the messages and the system prompt
RedactContent(heap, root, env) ==
    LET items == heap[root].items
        messages == IF "messages" \in DOMAIN items /\ IsList(heap, items["messages"])
                    THEN {heap[items["messages"].at].items[k].at :
                             k \in {x \in DOMAIN heap[items["messages"].at].items :
                                 IsDict(heap, heap[items["messages"].at].items[x])}}
                    ELSE {}
        with_str == {m \in messages : /\ "content" \in DOMAIN heap[m].items
                                      /\ heap[m].items["content"].kind = "str"}
    IN  IF env.TESTING THEN heap
        ELSE [j \in DOMAIN heap |->
                 IF j \in with_str
                 THEN Overwritten(heap[j], {"content"}, CONTENT_REDACTED)
                 ELSE IF j = root
                 THEN Overwritten(heap[j], {"system"}, SYSTEM_PROMPT_REDACTED)
                 ELSE heap[j]]
\* RequestResponseLogger._sanitize_body for a dict
_sanitize_body(heap, id, env) ==
    IF ~Truthy(heap, id)
    THEN [heap |-> heap, ref |-> id]
    ELSE LET c == deepcopy(heap, id)
             fields == RedactNestedHeaders(RedactFields(c.heap, c.ref), c.ref, env)
         IN  [heap |-> IF env.LOG_TOKENS THEN fields
                       ELSE RedactContent(fields, c.ref, env),
              ref |-> c.ref]

\* an entry of the headers of log_data in the text json.dumps gives
RenderEntry(name, chars) ==
    <<"\"">> \o NameChars(name) \o <<"\"", ":", " ", "\"">> \o chars \o <<"\"">>
\* the header entries of the record: json.dumps(log_data) after
\* redact_api_key. No pattern of redact_api_key matches across the comma
\* between two entries, so the entries are redacted one by one.
RecordEntries(object) ==
    {[name |-> k,
      text |-> redact_api_key(PyStr(RenderEntry(k, object.items[k].chars))).chars] :
        k \in DOMAIN object.items}
NoRecord == [emitted |-> FALSE, with_headers |-> FALSE, headers |-> {}]
\* what a log call does: "if headers and isinstance(headers, dict)" the
\* headers are sanitized, "if body is not None" the body is, and the details
\* are emitted when LOG_LEVEL is DEBUG
LogCall(heap, headers, body, env, sanitizes_body) ==
    LET with_headers == Truthy(heap, headers) /\ heap[headers].type = "dict"
        hs == IF with_headers THEN _sanitize_headers(heap, headers, env)
              ELSE [heap |-> heap, ref |-> headers]
        bd == IF sanitizes_body THEN _sanitize_body(hs.heap, body, env)
              ELSE [heap |-> hs.heap, ref |-> body]
    IN  [heap |-> bd.heap,
         record |-> IF env.DEBUG
                    THEN [emitted |-> TRUE, with_headers |-> with_headers,
                          headers |-> IF with_headers
                                      THEN RecordEntries(hs.heap[hs.ref]) ELSE {}]
                    ELSE NoRecord]
\* RequestResponseLogger.log_request
log_request(heap, headers, body, env) == LogCall(heap, headers, body, env, TRUE)
\* 'body["streaming"] is True', 'body["binary"] is True'
Flagged(object, key) ==
    key \in DOMAIN object.items /\ object.items[key] = BoolValue(TRUE)
\* RequestResponseLogger.log_response: a body marked streaming or binary is
\* summarised, any other is sanitized
log_response(heap, headers, body, env) ==
    LogCall(heap, headers, body, env,
            ~Flagged(heap[body], "streaming") /\ ~Flagged(heap[body], "binary"))

\* the part of the heap an object is made of
Subheap(heap, id) == [i \in Reachable(heap, id) |-> heap[i]]
NoArgs == [headers |-> 0, body |-> 0]
NothingSent == [headers |-> <<>>, body |-> <<>>]

SnInit ==
    /\ sn_pc = "new"
    /\ sn_env = [TESTING |-> FALSE, LOG_TOKENS |-> FALSE, DEBUG |-> FALSE]
    /\ sn_heap = <<>>
    /\ sn_before = <<>>
    /\ sn_args = NoArgs
    /\ sn_record = NoRecord
    /\ sn_sent = NothingSent

\* forward_request has built the outbound headers and parsed the body.
BuildRequest ==
    /\ sn_pc = "new"
    /\ sn_pc' = "built"
    /\ sn_env' \in SanitizeEnvs
    /\ sn_heap' \in RequestHeaps
    /\ sn_args' = [headers |-> 1, body |-> 2]
    /\ UNCHANGED <<now, rl_vars, sf_vars, tl_vars, st_vars, fw_vars, rd_vars, lg_vars,
                   wt_vars, gw_vars, bk_vars, sn_before, sn_record, sn_sent>>

\* self.request_logger.log_request(request_id, method, path, headers, body)
LogRequestCall ==
    /\ sn_pc = "built"
    /\ sn_pc' = "logged"
    /\ sn_before' = sn_heap
    /\ LET r == log_request(sn_heap, sn_args.headers, sn_args.body, sn_env) IN
        /\ sn_heap' = r.heap
        /\ sn_record' = r.record
    /\ UNCHANGED <<now, rl_vars, sf_vars, tl_vars, st_vars, fw_vars, rd_vars, lg_vars,
                   wt_vars, gw_vars, bk_vars, sn_env, sn_args, sn_sent>>

\* client.request(method, url, headers=headers, json=body): the upstream
\* request takes the headers and the body as they are now.
SendUpstream ==
    /\ sn_pc = "logged"
    /\ sn_pc' = "sent"
    /\ sn_sent' = [headers |-> Subheap(sn_heap, sn_args.headers),
                   body |-> Subheap(sn_heap, sn_args.body)]
    /\ UNCHANGED <<now, rl_vars, sf_vars, tl_vars, st_vars, fw_vars, rd_vars, lg_vars,
                   wt_vars, gw_vars, bk_vars, sn_env, sn_heap, sn_before, sn_args,
                   sn_record>>

\* The response is read into response_headers and response_body, and
\* self.request_logger.log_response(request_id, status_code, response_headers,
\* response_body) is called.
LogResponseCall ==
    /\ sn_pc = "sent"
    /\ sn_pc' = "answered"
    /\ \E hs \in ResponseHeaderMaps, body \in ResponseBodies :
        LET heap == sn_heap \o << PyDict(hs), PyDict(body) >>
            args == [headers |-> Len(sn_heap) + 1, body |-> Len(sn_heap) + 2]
            r == log_response(heap, args.headers, args.body, sn_env)
        IN  /\ sn_before' = heap
            /\ sn_args' = args
            /\ sn_heap' = r.heap
            /\ sn_record' = r.record
    /\ UNCHANGED <<now, rl_vars, sf_vars, tl_vars, st_vars, fw_vars, rd_vars, lg_vars,
                   wt_vars, gw_vars, bk_vars, sn_env, sn_sent>>

(***************************************************************************)
(* Specifications                                                          *)
(***************************************************************************)
vars == <<now, rl_vars, sf_vars, tl_vars, st_vars, fw_vars, ob_vars>>

Init ==
    /\ now = 0
    /\ RlInit
    /\ SfInit
    /\ TlInit
    /\ StInit
    /\ FwInit
    /\ RdInit
    /\ LgInit
    /\ WtInit
    /\ GwInit
    /\ BkInit
    /\ SnInit

\* RateLimiter alone: calls of check_rate_limit as time passes.
NextRate == CheckRateLimit \/ Tick
SpecRate == Init /\ [][NextRate]_vars

\* SecurityFilter.validate_request over its own request-rate limiter.
NextFilter == ValidateRequest \/ WindowPasses
SpecFilter == Init /\ [][NextFilter]_vars

\* TokenRateLimiter.check_token_limit under concurrent callers.
NextTokens == TokenCall \/ TokenResume \/ TokenTick
SpecTokens == Init /\ [][NextTokens]_vars

\* The routes of the gateway, each through its own proxy.
NextGateway == GatewayRequest \/ GatewayTick
SpecGateway == Init /\ [][NextGateway]_vars

\* _calculate_wait_time as a function of its arguments.
NextWait == CalculateWait
SpecWait == Init /\ [][NextWait]_vars

\* The delay after a 429 as a function of the response and the attempt.
NextBackoff == CalculateBackoff
SpecBackoff == Init /\ [][NextBackoff]_vars

\* A request and its response through log_request and log_response.
NextSanitize == BuildRequest \/ LogRequestCall \/ SendUpstream \/ LogResponseCall
SpecSanitize == Init /\ [][NextSanitize]_vars

\* The callers of check_token_limit under the scheduling of asyncio: a sleep
\* ends when its time has passed, and the event loop then resumes a coroutine
\* that is ready. Calls arrive at any time a sleep has ended, and after a
\* lull of the limiter.
NextTokensFair == TokenCall \/ TokenResume \/ TokenSleepEnds \/ TokenLull
SpecTokensFair ==
    /\ Init /\ [][NextTokensFair]_vars
    /\ WF_vars(TokenSleepEnds)
    /\ WF_vars(TokenResume)

\* One relay session of _process_stream over every upstream behaviour.
NextStream ==
    \/ StreamingRequest
    \/ MockStreamingRequest
    \/ StreamOpen
    \/ StreamChunk
    \/ StreamExhausted
    \/ StreamException
    \/ StreamCancel
SpecStream == Init /\ [][NextStream]_vars

\* forward_request and _handle_rate_limit_retry, one inbound request after
\* the other, over every upstream behaviour.
NextForward ==
    \/ ProxyInit
    \/ FwStart
    \/ FwTokenSleep
    \/ FwTokenResume
    \/ FwStream
    \/ FwAttempt
    \/ FwExhausted
    \/ FwProcess
    \/ FwFallback
    \/ FwReturn
SpecForward == Init /\ [][NextForward]_vars

\* redact_api_key applied, and applied again to its own result.
NextRedact == RedactOnce \/ RedactTwice
SpecRedact == Init /\ [][NextRedact]_vars

\* The log records of requests received, forwarded and answered.
NextLog == LogStartup \/ LogReceive \/ LogForward \/ LogResponse \/ LogNext
SpecLog == Init /\ [][NextLog]_vars

(***************************************************************************)
(* Claims                                                                  *)
(***************************************************************************)

\* C2: at most `limit` calls of check_rate_limit return True within any 60 s
\* window (counted from each admission on), and a call returns False without
\* adding a sample exactly when `limit` admitted calls are less than 60 s old:
\* a rejected call postpones nothing, the next call after the oldest sample is
\* 60 s old is admitted.
C2_AtMostLimitPerWindow ==
    /\ \A i \in 1..Len(rl_admitted) :
          Cardinality({j \in 1..Len(rl_admitted) :
                          /\ rl_admitted[j] >= rl_admitted[i]
                          /\ rl_admitted[j] - rl_admitted[i] < RateLimiter_window_size})
              <= RateLimit
    /\ rl_last.called =>
          /\ rl_last.ok = ~rl_last.full
          /\ ~rl_last.ok => rl_last.after = rl_last.before
          /\ rl_last.ok => rl_last.after = Append(rl_last.before, rl_last.at)

\* C2 witness: a call was refused in a full window, and a later call, made once
\* the oldest sample was 60 s old, was admitted.
C2_Witness ==
    /\ rl_last.called /\ rl_last.ok
    /\ Len(rl_admitted) = RateLimit + 1
    /\ rl_calls > RateLimit + 1

\* C7 as stated: with the policy enabled every request naming a non-empty
\* model outside allowed_models is rejected with 403 and the detail naming the
\* model, for every body and every path.
C7_Original ==
    (sf_last.called /\ filters_enabled
        /\ Get(sf_last.body, "model", "") # ""
        /\ Get(sf_last.body, "model", "") \notin allowed_models)
    => /\ sf_last.status = 403
       /\ sf_last.detail = <<"Model", sf_last.body["model"], "is not allowed">>

\* C7 amended: with the policy enabled, a request that the request-rate limiter
\* admits and whose path selects a validation rule (it contains chat/completions,
\* or completions without chat, or embeddings, or messages) is rejected with 403
\* and the detail "Model <m> is not allowed" whenever its body names a non-empty
\* model m outside allowed_models, whatever its other fields; a request without
\* a model field is never rejected with a detail about its model.
C7_ModelAllowlist ==
    sf_last.called /\ filters_enabled =>
        /\ (/\ ~sf_last.limited
            /\ RuleOf(sf_last.path) # "none"
            /\ Get(sf_last.body, "model", "") # ""
            /\ Get(sf_last.body, "model", "") \notin allowed_models)
           => /\ sf_last.status = 403
              /\ sf_last.detail = <<"Model", sf_last.body["model"], "is not allowed">>
        /\ "model" \notin DOMAIN sf_last.body
           => (sf_last.detail = <<>> \/ sf_last.detail[1] # "Model")

\* C7 witness: a request for gpt-4 that also asks for too many tokens and
\* carries blocked content is rejected for its model.
C7_Witness ==
    /\ sf_last.called /\ filters_enabled /\ ~sf_last.limited
    /\ RuleOf(sf_last.path) = "message"
    /\ Get(sf_last.body, "model", "") = "gpt-4"
    /\ Get(sf_last.body, "max_tokens", 0) > max_tokens
    /\ "system" \in DOMAIN sf_last.body
    /\ sf_last.status = 403
    /\ sf_last.detail = <<"Model", "gpt-4", "is not allowed">>

\* C1: whenever check_token_limit admits a request, the tokens admitted in the
\* trailing 60 s window, the new sample included, do not exceed
\* tpm_limit * 0.95.
C1_WindowSumWithinLimit ==
    tl_last.called => tl_last.window_sum <= effective_limit

\* the number of frames of st_out that satisfy a test
CountDone(out) == Cardinality({i \in 1..Len(out) : out[i] = DoneFrame})
CountErrors(out) == Cardinality({i \in 1..Len(out) : out[i].type = "stream_error"})

\* C3: every relay session delivers "data: [DONE]" to the caller exactly once,
\* whether the upstream ended normally or failed, and whether or not the
\* upstream sent a [DONE] of its own.
C3_DoneExactlyOnce ==
    st_pc = "closed" => CountDone(st_out) = 1

\* C4: a session ended by a transport error yields exactly one error frame,
\* of type stream_error and with a message, immediately followed by [DONE] as
\* the last frame; a session ends either so or, the upstream having ended
\* normally, with [DONE] and no error frame.
C4_ErrorThenDone ==
    st_pc = "closed" =>
        LET n == Len(st_out) IN
        IF st_end = "normal"
        THEN /\ n >= 1
             /\ st_out[n] = DoneFrame
             /\ CountErrors(st_out) = 0
        ELSE /\ st_end \in StreamExceptions
             /\ n >= 2
             /\ st_out[n] = DoneFrame
             /\ st_out[n - 1].payload = "error"
             /\ st_out[n - 1].type = "stream_error"
             /\ st_out[n - 1].message # ""
             /\ CountErrors(st_out) = 1

\* C4 witness: a write timeout after two chunks were relayed.
C4_Witness ==
    /\ st_pc = "closed"
    /\ st_end = "WriteTimeout"
    /\ Len(st_out) = 4
    /\ st_out[1] = DataFrame
    /\ st_out[3] = ErrorFrame("Stream write timeout")
    /\ st_out[4] = DoneFrame

\* the upstream requests _handle_rate_limit_retry has sent for the request
RetryDispatches == SelectSeq(fw_dispatches, LAMBDA d : d.client = "retry")

C6_ReturnsFirstNon429 ==
    LET n == Len(RetryDispatches) IN
    /\ \A i \in 1..n :
          (RetryDispatches[i].outcome.kind = "response"
              /\ RetryDispatches[i].outcome.status # 429)
          => /\ i = n
             /\ rt_result = RetryDispatches[i].outcome
             /\ fw_pc \in {"process", "fallback", "done"}
    /\ (/\ rt_result.kind = "response"
        /\ \A i \in 1..(n - 1) : RetryDispatches[i].outcome = Responded(429))
       => /\ rt_result = RetryDispatches[n].outcome
          /\ Len(rt_waits) = n - 1
          /\ n - 1 < max_retries
          /\ (fw_pc = "done" /\ Len(fw_dispatches) = n)
                => fw_response = Upstream(rt_result.status)

\* C6 witness: 429, 429, 200 gave the 200 after two waits and three attempts.
C6_Witness ==
    /\ fw_pc = "done"
    /\ [i \in 1..Len(fw_dispatches) |-> fw_dispatches[i].outcome.status]
           = <<429, 429, 200>>
    /\ Len(rt_waits) = 2
    /\ fw_response = Upstream(200)

\* whether the request in hand failed to read as a JSON body
BodyRejected ==
    /\ fw_req.method = "POST"
    /\ fw_req.body_bytes \in {"empty", "invalid"}

\* C8: a request that fails local validation (empty body, malformed JSON, a
\* SecurityFilter rejection) is never sent upstream and ends with an error
\* envelope; whenever an upstream request has been sent, the security check
\* had been made and had passed.
C8_NoDispatchAfterLocalRejection ==
    /\ fw_dispatches # <<>> => fw_verdict = 200
    /\ (fw_pc # "idle" /\ fw_pc # "new" /\ (BodyRejected \/ fw_verdict \notin {0, 200}))
       => /\ fw_dispatches = <<>>
          /\ rt_retries = 0
          /\ fw_pc = "done"
          /\ fw_response.kind = "envelope"
          /\ fw_response.status \in {400, 401, 403, 429}

\* C8 witness: the security filter refused a request (403) and it ended with
\* the security_filter_error envelope, nothing sent.
C8_Witness ==
    /\ fw_pc = "done"
    /\ fw_verdict = 403
    /\ fw_response = Envelope(403, "security_filter_error")
    /\ fw_dispatches = <<>>

\* C9: when the first upstream request of a forwarded request fails at
\* transport level, streaming or not, exactly one further request is sent, on
\* HTTP/1.1, before the request ends; and the fallback is only ever sent after
\* a transport failure, never after an HTTP response.
C9_OneFallbackOnTransportFailure ==
    /\ (fw_pc = "done" /\ fw_dispatches # <<>>
            /\ fw_dispatches[1].outcome.kind = "exception")
       => /\ Len(fw_dispatches) = 2
          /\ fw_dispatches[2].client = "fallback"
          /\ ~fw_dispatches[2].http2
    /\ \A i \in 1..Len(fw_dispatches) :
          fw_dispatches[i].client = "fallback"
          => /\ i > 1
             /\ fw_dispatches[i - 1].outcome.kind = "exception"

\* C10: a non-streaming request whose every upstream request failed at
\* transport level ends with proxy_error, 500 or 504; and the rate_limit_error
\* envelope is returned only when the upstream answered 429.
C10_TransportFailureIsProxyError ==
    fw_pc = "done" =>
        /\ (/\ RetryDispatches # <<>>
            /\ \A i \in 1..Len(fw_dispatches) :
                   fw_dispatches[i].outcome.kind = "exception")
           => /\ fw_response.type = "proxy_error"
              /\ fw_response.status \in {500, 504}
        /\ fw_response.type = "rate_limit_error"
           => \E i \in 1..Len(fw_dispatches) :
                 fw_dispatches[i].outcome = Responded(429)

C12_JarsConsistent ==
    fw_pc \in {"idle", "done"} => client_jar = streaming_jar

\* C13: every upstream request, non-streaming or streaming, is sent by a
\* client whose jar holds every cookie learned from the responses before it.
C13_CookiesVisibleToLaterDispatches ==
    \A i \in 1..Len(fw_dispatches) :
        fw_dispatches[i].known \subseteq fw_dispatches[i].jar

\* C14: while a relay session is in progress the upstream response stays open:
\* from the return of _handle_streaming_request until _process_stream has read
\* the upstream to its end the connection is not closed.
C14_UpstreamOpenDuringRelay ==
    st_pc \in {"returned", "relaying"} => st_conn = "open"

\* C15: when the caller cancels a relay session, the upstream response is
\* closed, and no frame, data, error or [DONE], is emitted after the
\* cancellation: the frames the caller got are those it had when it cancelled.
C15_CancelClosesUpstream ==
    st_pc = "cancelled" =>
        /\ st_conn = "closed"
        /\ st_out = st_at_cancel
        /\ st_end \in CancelSignals

\* C15 witness: a session over an open upstream was cancelled after it had
\* relayed chunks.
C15_Witness ==
    /\ st_pc = "cancelled"
    /\ st_headers.built = NoHeaders
    /\ Len(st_out) >= 2
    /\ st_conn = "closed"

\* the headers every SSE response is to carry, and the one it must not
IsSSE(headers) ==
    /\ \A h \in DOMAIN SSEHeaders :
          h \in DOMAIN headers /\ headers[h] = SSEHeaders[h]
    /\ "content-length" \notin DOMAIN headers

StreamingAnswered429 ==
    /\ fw_dispatches # <<>>
    /\ fw_dispatches[1].client = "primary"
    /\ fw_dispatches[1].outcome = Responded(429)

\* C17: when the upstream answers a streaming request with 429, the request
\* ends at once with one JSON response of status 429 that is not a stream: the
\* upstream's own body when it is JSON, the rate_limit_error envelope
\* otherwise; that one upstream request is the only one sent, and nothing is
\* retried.
C17_Streaming429IsJSON ==
    StreamingAnswered429 =>
        /\ fw_pc = "done"
        /\ Len(fw_dispatches) = 1
        /\ rt_retries = 0
        /\ rt_waits = <<>>
        /\ fw_response.status = 429
        /\ fw_response.kind # "stream"
        /\ fw_response = IF fw_dispatches[1].json_body
                         THEN Upstream(429)
                         ELSE Envelope(429, "rate_limit_error")

\* C17 witness: a streaming request answered 429 with a JSON body has ended
\* with the upstream's body as the response.
C17_Witness ==
    /\ StreamingAnswered429
    /\ is_streaming(FwBody(fw_req))
    /\ fw_dispatches[1].json_body
    /\ fw_pc = "done"
    /\ fw_response = Upstream(429)

\* whether the request in hand has no credential to resolve: the caller sent
\* no credential header and no key is configured
NoCredential ==
    /\ fw_pc \notin {"new", "idle"}
    /\ ~fw_req.authorized
    /\ api_key = ""

\* C18: a request for which no credential is resolvable (no credential header
\* from the caller, no configured key) is never sent upstream and ends with
\* the 401 api_key_error envelope, for the OpenAI and the Anthropic proxy.
C18_NoCredentialIs401 ==
    NoCredential =>
        /\ fw_dispatches = <<>>
        /\ fw_pc = "done"
        /\ fw_response = Envelope(401, "api_key_error")

\* the error types the specification lists
ErrorTaxonomy ==
    {"invalid_request_error", "api_key_error", "security_filter_error",
     "rate_limit_error", "stream_error", "proxy_error"}

\* C19: every error envelope forward_request returns carries a type of the
\* fixed taxonomy.
C19_ErrorTypesInTaxonomy ==
    fw_response.kind = "envelope" => fw_response.type \in ErrorTaxonomy

\* C20: a security_filter_error response always has status 403, and a request
\* the local request-rate limiter refuses ends with status 429 and type
\* rate_limit_error.
C20_StatusFollowsType ==
    /\ (fw_response.kind = "envelope" /\ fw_response.type = "security_filter_error")
           => fw_response.status = 403
    /\ (fw_pc = "done" /\ fw_verdict = 429)
           => /\ fw_response.status = 429
              /\ fw_response.type = "rate_limit_error"

\* C23: redact_api_key applied to its own result changes nothing; it returns
\* unchanged every text in which no pattern matches, and every value that is
\* not a str.
C23_RedactIdempotent ==
    /\ rd_pc = "twice" => rd_twice = rd_once
    /\ (rd_pc # "input" /\ ~SecretShaped(rd_text)) => rd_once = rd_text

\* C23 witness: a text with a key in it was shortened by the first
\* application and left alone by the second.
C23_Witness ==
    /\ rd_pc = "twice"
    /\ SecretShaped(rd_text)
    /\ rd_once # rd_text
    /\ rd_twice = rd_once

\* the log calls made while a request is handled, not at start-up
RequestTimeLines == {53, 62, 174, 348, 358, 359, 422, 429, 481, 93, 97,
                     565, 570, 596, 141, 145, 77, 81}

\* C21: an INFO record written while a request is received, forwarded and
\* answered shows nothing but the request id, the method, the path and the
\* status code.
C21_InfoShowsNoHeadersOrBodies ==
    \A i \in 1..Len(lg_sink[1]) :
        (lg_sink[1][i].level = "INFO" /\ lg_sink[1][i].line \in RequestTimeLines)
            => lg_sink[1][i].shows \subseteq {"request_id", "method", "path", "status"}

\* C22: two runs that differ only in the secret part of the credentials write
\* the same log records, and no record holds the secret part of a key.
C22_NoRawCredentialInLogs ==
    /\ lg_sink[1] = lg_sink[2]
    /\ \A run \in Runs : \A i \in 1..Len(lg_sink[run]) :
          ~Contains(SecretPart(run), lg_sink[run][i].text)

\* C24: with the policy disabled, validate_request returns True for every
\* body and every path, and the request-rate limiter's list stays as it was:
\* nothing is recorded and nothing is refused, however many calls are made.
C24_DisabledAcceptsAll ==
    ~filters_enabled =>
        /\ requests = <<>>
        /\ sf_last.called => /\ sf_last.status = 200
                             /\ ~sf_last.limited

\* C24 witness: more calls than the request-rate limit allows were made with
\* the policy disabled, the last one with a disallowed model, too many tokens
\* and blocked content on a chat/completions path, and it was accepted.
C24_Witness ==
    /\ ~filters_enabled
    /\ SfCalls > RateLimit
    /\ RuleOf(sf_last.path) = "chat_completion"
    /\ Get(sf_last.body, "model", "") = "gpt-4"
    /\ Get(sf_last.body, "max_tokens", 0) > max_tokens
    /\ "messages" \in DOMAIN sf_last.body
    /\ sf_last.status = 200
    /\ requests = <<>>

\* C25: when an upstream request is dispatched for an inbound request that
\* carries cookies, each of those cookies is in the buffered client's jar and
\* in the streaming client's jar, for the OpenAI and the Anthropic proxy.
C25_RequestCookiesInBothJars ==
    \A i \in 1..Len(fw_dispatches) : fw_req.cookies \subseteq fw_dispatches[i].both

\* the textual content of a request that holds a blocked pattern: a message's
\* string content or text item, the prompt field, the system field
BlockedText(body) ==
    \/ MessagesCheck(body).status = 403
    \/ PromptCheck(body).status = 403
    \/ SystemCheck(body).status = 403

\* C26: with the policy enabled, a request that the request-rate limiter admits
\* and whose path selects a validation rule is rejected with 403 whenever a
\* blocked pattern matches, case-insensitively, a message's string content, a
\* text item of a content list, the prompt field or the system field.
C26_BlockedContentRejected ==
    (/\ sf_last.called /\ filters_enabled /\ ~sf_last.limited
     /\ RuleOf(sf_last.path) # "none"
     /\ BlockedText(sf_last.body))
    => sf_last.status = 403

\* the model of the request passes the allowlist test, so that the rule goes on
\* to the token count
ModelPasses(body) == ModelCheck(body).status = 200

\* C27: with the policy enabled, for a request that the request-rate limiter
\* admits, whose path selects a validation rule and whose model passes the
\* allowlist: a max_tokens that is non-zero and above the ceiling is rejected
\* with 403 and a detail naming the requested count and the limit, under every
\* rule (chat/completions, completions, embeddings, messages); a max_tokens
\* that is absent, zero or at most the ceiling is never rejected with a detail
\* about the token count.
C27_MaxTokensCeiling ==
    (/\ sf_last.called /\ filters_enabled /\ ~sf_last.limited
     /\ RuleOf(sf_last.path) # "none"
     /\ ModelPasses(sf_last.body))
    => LET requested == Get(sf_last.body, "max_tokens", 0) IN
       IF requested # 0 /\ requested > max_tokens
       THEN /\ sf_last.status = 403
            /\ sf_last.detail = <<"Max tokens", ToString(requested),
                                  "exceeds limit of", ToString(max_tokens)>>
       ELSE sf_last.detail = <<>> \/ sf_last.detail[1] # "Max tokens"

\* caller c is about to check again exactly when its computed wait elapses, and
\* nothing was admitted while it slept
RecheckOnTime(c) ==
    /\ tl_pc[c] = "sleeping"
    /\ now = tl_wake[c]
    /\ Len(tl_admitted) = tl_slept[c]

\* C28: a caller that check_token_limit suspended, and that checks again when
\* the computed wait elapses with no request admitted in the meantime, is not
\* suspended a second time by that re-check: the re-check admits it.
C28_AdmittedAfterComputedWait ==
    [][\A c \in Callers :
          RecheckOnTime(c) => ~(tl_pc'[c] = "sleeping" /\ tl_wake'[c] # tl_wake[c])]_vars

\* a step in which some caller made one pass of check_token_limit: it was
\* admitted, or it went (back) to sleep with a new wake time
TokenPassTaken ==
    \/ tl_admitted' # tl_admitted
    \/ tl_pc' # tl_pc
    \/ tl_wake' # tl_wake

\* the samples of a usage list that are 60 s old or older at time t
StaleSamples(usage, t) ==
    {i \in 1..Len(usage) : t - usage[i][1] >= TokenRateLimiter_window_size}

\* C29: every pass of check_token_limit decides over a purged window: the
\* token_usage it summed (what the pass leaves behind, its own new sample
\* aside, which is aged 0) holds no sample 60 s old or older, however close
\* the pass is to the one before it.
C29_DecisionOverPurgedWindow ==
    [][TokenPassTaken => StaleSamples(token_usage', now) = {}]_vars

Lifetime(usage, i, t) == usage[i][1] + TokenRateLimiter_window_size - t
\* the tokens of the entries that have expired when d more have passed
FreedWithin(usage, t, d) ==
    SumTokens(SelectSeq(usage,
                        LAMBDA e : e[1] + TokenRateLimiter_window_size - t <= d))
\* the remaining lifetimes after which the request fits
SufficientLifetimes(usage, t, n) ==
    {Lifetime(usage, i, t) : i \in 1..Len(usage)} \cap
        {d \in 1..TokenRateLimiter_window_size :
            SumTokens(usage) - FreedWithin(usage, t, d) + n <= effective_limit}
Smallest(S) == CHOOSE d \in S : \A e \in S : d <= e

\* C31: over a window that holds no sample 60 s old or older,
\* _calculate_wait_time returns 0 when the request fits; otherwise the
\* smallest remaining lifetime t of an entry such that the entries expiring
\* no later than t free enough for current_usage - freed + tokens <=
\* effective_limit, plus 0.1 s; and the window length when no entry does.
C31_WaitIsSmallestSufficientLifetime ==
    (wt_pc = "done" /\ StaleSamples(wt_in.token_usage, wt_in.current_time) = {})
    => LET usage == wt_in.token_usage
           t == wt_in.current_time
           n == wt_in.requested_tokens
       IN wt_out =
            IF SumTokens(usage) + n <= effective_limit THEN 0
            ELSE IF SufficientLifetimes(usage, t, n) # {}
                 THEN Smallest(SufficientLifetimes(usage, t, n)) + wait_buffer
                 ELSE TokenRateLimiter_window_size

\* the check that rejected the last request, by the detail of its exception
RejectedBy ==
    IF ~sf_last.called \/ sf_last.status = 200 THEN "none"
    ELSE IF sf_last.status = 429 THEN "rate"
    ELSE IF sf_last.detail[1] = "Model" THEN "model"
    ELSE IF sf_last.detail[1] = "Max tokens" THEN "tokens"
    ELSE "content"

AdmittedAcrossRoutes(t) ==
    Len(SelectSeq(gw_admitted, LAMBDA e : t - e[1] < RateLimiter_window_size))

\* C33: the request-rate window is one for the whole gateway: with the policy
\* enabled, the requests admitted through all routes together in any 60 s
\* stay within the one requests_per_minute limit.
C33_OneWindowForAllRoutes ==
    filters_enabled => AdmittedAcrossRoutes(now) <= RateLimit

\* what the last call of validate_request raised, or Accept
LastVerdict == [status |-> sf_last.status, detail |-> sf_last.detail]

\* C34: with the policy enabled and the request-rate check passed,
\* validate_request applies exactly one rule, the first whose substring test
\* the path passes in the order chat/completions, completions (without chat),
\* embeddings, messages; a path that passes none is accepted without any
\* check of model, max_tokens or content.
C34_FirstMatchingRule ==
    (sf_last.called /\ filters_enabled /\ ~sf_last.limited) =>
        LET path == sf_last.path
            body == sf_last.body
        IN LastVerdict =
             IF Contains(<<"chat", "/", "completions">>, path)
             THEN _validate_openai_chat_completion(body)
             ELSE IF Contains(<<"completions">>, path) /\ ~Contains(<<"chat">>, path)
             THEN _validate_openai_completion(body)
             ELSE IF Contains(<<"embeddings">>, path)
             THEN _validate_openai_embedding(body)
             ELSE IF Contains(<<"messages">>, path)
             THEN _validate_anthropic_message(body)
             ELSE Accept

\* C34 witness: a path that holds both "messages" and "embeddings" gets the
\* embeddings rule, which accepts a token count the messages rule refuses.
C34_Witness ==
    /\ sf_last.called /\ filters_enabled /\ ~sf_last.limited
    /\ sf_last.path = <<"messages", "/", "embeddings">>
    /\ _validate_anthropic_message(sf_last.body).status = 403
    /\ sf_last.status = 200

\* the reset headers of a response that give a positive number, in ms
PositiveResets(headers) ==
    {float(headers[i].value).ms : i \in
        {k \in 1..Len(headers) :
            /\ Contains(<<"x-ratelimit-reset">>, LowerName(headers[k].name))
            /\ ~float(headers[k].value).raised
            /\ float(headers[k].value).ms > 0}}
\* the range of the jittered exponential backoff of an attempt, in ms
InBackoffRange(delay, attempt) ==
    /\ delay >= (base_retry_delay * Pow2(attempt)) \div 2
    /\ delay < (3 * base_retry_delay * Pow2(attempt)) \div 2

\* C35: after a 429 the wait is reset + 0.5 s when a header whose name
\* contains x-ratelimit-reset (in any case) parses as a positive number, and
\* otherwise lies in [0.5, 1.5), [1, 3), [2, 6) s for attempts 0, 1, 2.
C35_BackoffWait ==
    bk_pc = "done" =>
        IF PositiveResets(bk_in.headers) # {}
        THEN \E reset \in PositiveResets(bk_in.headers) :
                 bk_delay = reset + reset_buffer
        ELSE InBackoffRange(bk_delay, bk_in.retries)

\* forward_request consults the token limiter for the request
TokenLimited(req) ==
    /\ req.provider = "openai"
    /\ req.method = "POST"
    /\ FwPath(req) \in TokenLimitedPaths
\* the step in which forward_request builds the 403 of a security rejection
RejectedWith403 ==
    /\ fw_pc # "done"
    /\ fw_pc' = "done"
    /\ fw_response' = Envelope(403, "security_filter_error")

\* C36: limiter state is not rolled back on rejection: a request rejected
\* with 403 has added one sample to the request-rate window and, on the
\* token-limited paths of OpenAIProxy, its token estimate to the token window,
\* which it may have waited for.
C36_NoRollbackOnRejection ==
    [][RejectedWith403 =>
          /\ requests' = Append(RemoveOldRequests(requests, now), now)
          /\ TokenLimited(fw_req') =>
                /\ token_usage' # <<>>
                /\ token_usage'[Len(token_usage')]
                       = <<now, total_tokens(fw_req'.body)>>
                /\ Len(token_usage') =
                       Len(_cleanup_old_entries(token_usage, last_cleanup,
                                                now).token_usage) + 1
                /\ tl_admitted' = Append(tl_admitted,
                                         <<now, total_tokens(fw_req'.body)>>)
          /\ ~TokenLimited(fw_req') => token_usage' = token_usage
    ]_vars
\* a request that waited for the token limiter, was admitted by it and by the
\* request-rate limiter, and was then rejected with 403
C36_Witness ==
    /\ fw_pc = "done"
    /\ fw_response = Envelope(403, "security_filter_error")
    /\ TokenLimited(fw_req)
    /\ tl_last.waited
    /\ tl_last.at = now
    /\ token_usage # <<>>
    /\ token_usage[Len(token_usage)] = <<now, total_tokens(fw_req.body)>>
    /\ requests # <<>>
    /\ requests[Len(requests)] = now

\* the upstream requests of the call sent by the given client
DispatchesBy(client) == SelectSeq(fw_dispatches, LAMBDA d : d.client = client)
\* the attempts of the retry loop that consumed a retry: a 429 or an exception
ConsumedAttempts ==
    SelectSeq(RetryDispatches,
              LAMBDA d : d.outcome.kind = "exception" \/ d.outcome.status = 429)

\* C37: an inbound request causes a bounded number of upstream dispatches: at
\* most one when it streams (no retry, no fallback) and at most
\* max_retries + 1 otherwise: max_retries attempts of the retry loop, an
\* exception consuming an attempt as a 429 does, and at most one fallback.
C37_BoundedDispatches ==
    /\ is_streaming(FwBody(fw_req)) =>
          /\ Len(fw_dispatches) <= 1
          /\ fw_dispatches = DispatchesBy("primary")
    /\ ~is_streaming(FwBody(fw_req)) =>
          /\ Len(fw_dispatches) <= max_retries + 1
          /\ Len(RetryDispatches) <= max_retries
          /\ Len(DispatchesBy("fallback")) <= 1
          /\ Len(fw_dispatches)
                 = Len(RetryDispatches) + Len(DispatchesBy("fallback"))
          /\ Len(ConsumedAttempts) = rt_retries
\* a non-streaming request that used every attempt, one of them lost to an
\* exception, and the fallback
C37_Witness ==
    /\ ~is_streaming(FwBody(fw_req))
    /\ Len(fw_dispatches) = max_retries + 1
    /\ fw_dispatches[1].outcome.kind = "exception"
    /\ fw_dispatches[2].outcome = Responded(429)
    /\ fw_dispatches[max_retries + 1].client = "fallback"

\* C38: every 429 that _handle_rate_limit_retry receives is followed by a
\* backoff wait, the one of the last permitted attempt included: the waits
\* match the attempts that did not return one for one, and the
\* rate_limit_error envelope is returned only after max_retries waits.
C38_Every429IsWaitedOut ==
    /\ Len(rt_waits) = Len(ConsumedAttempts)
    /\ \A i \in 1..Len(ConsumedAttempts) :
          ConsumedAttempts[i].outcome = Responded(429)
              => (i <= Len(rt_waits) /\ rt_waits[i] = "rate_limit")
    /\ rt_result.kind = "envelope" =>
          /\ Len(rt_waits) = max_retries
          /\ (\A i \in 1..Len(RetryDispatches) :
                  RetryDispatches[i].outcome = Responded(429))
                => rt_waits = [i \in 1..max_retries |-> "rate_limit"]
\* an upstream that answered 429 to every attempt: max_retries waits, then the
\* envelope
C38_Witness ==
    /\ fw_pc = "done"
    /\ rt_result.kind = "envelope"
    /\ Len(RetryDispatches) = max_retries
    /\ \A i \in 1..Len(RetryDispatches) :
          RetryDispatches[i].outcome = Responded(429)
    /\ rt_waits = [i \in 1..max_retries |-> "rate_limit"]
    /\ fw_response = RateLimitEnvelope(fw_req.request_id, FwPath(fw_req))
    /\ proxy_class = "anthropic"

\* the keys of the header map given to the last log call that name a
\* sensitive header, in whatever case
SensitiveGiven ==
    {k \in DOMAIN sn_before[sn_args.headers].items : lower(k) \in sensitive_headers}
\* the record shows "[REDACTED]" for the header
ShownRedacted(k) ==
    [name |-> k, text |-> RenderEntry(k, REDACTED)] \in sn_record.headers
\* the log calls made so far left every object they were given as it was
ArgumentsUntouched ==
    \A id \in DOMAIN sn_before : sn_heap[id] = sn_before[id]
\* the upstream request carried the headers and the body as they were before
\* log_request
SentAsBuilt ==
    sn_pc = "sent" =>
        /\ sn_sent.headers = Subheap(sn_before, sn_args.headers)
        /\ sn_sent.body = Subheap(sn_before, sn_args.body)

====
